---- MODULE Spec2Model ----
(***************************************************************************)
(* A model of BankRec: the renderer's reconciliation matcher and CSV       *)
(* import confirmation (renderer app.js), the main process' IPC handlers   *)
(* (main.ts), the input validation (validation.ts) and the encrypted       *)
(* record store (db.ts).                                                   *)
(*                                                                         *)
(* Conventions.  An amount is a decimal number with two fraction digits,   *)
(* written [neg, whole, cents] (the ceiling 999,999,999.99 does not fit a  *)
(* machine integer of cents).  Dates are day numbers (an ISO date-only     *)
(* string parses to UTC midnight, so the difference of two dates is a      *)
(* whole number of days); NoDate is the empty string.  Transaction ids are *)
(* integers: 1..NumUuids are the values crypto.randomUUID() can return,    *)
(* any other integer is a string of the caller.                            *)
(***************************************************************************)
EXTENDS Integers, Sequences, FiniteSets, TLC

VARIABLES
    appData,        \* renderer: appData.transactions, the list load-data returned
    csvRow,         \* renderer: the candidate last given to findMatchesForCsvRow
    matches,        \* renderer: what findMatchesForCsvRow returned for csvRow
    dbKey,          \* EncryptedDatabase.key, derived from the secret at open time
    usedIvs,        \* the values crypto.randomBytes(16) has returned so far
    encLog,         \* the calls of encrypt so far: <<[text, out]>>
    decIn,          \* the argument of the last call of decrypt
    decOut,         \* its outcome: [threw, value]
    table,          \* store: the rows of the transactions table, by rowid
    csvTransactions,\* renderer: the candidates parseCSV produced (modal open)
    csvPreview,     \* renderer: per candidate, the matches offered as radios
    alertCount,     \* renderer: N of the last "Successfully imported N" alert
    valIn,          \* the argument of the last call of validateTransactionData
    valOut,         \* its outcome: [threw, value]
    createOut,      \* the last direct call of createTransaction and its outcome
    users,          \* store: the rows of the users table, by id
    categories,     \* store: the categories table, rows by id and its
                    \* AUTOINCREMENT sequence
    userOut,        \* the last call on users or categories and its outcome
    updateOut,      \* the last direct call of updateTransaction / updateUser
    clock,          \* Date.now()
    attempts,       \* RateLimiter.attempts: key -> timestamps
    rateLog,        \* history: per key the times of the accepted checks, and
                    \* how many of them came before the last reset(key)
    rateOut,        \* the last call of check and its result
    dbHandle,       \* main: db is "none" (null), "open" or "closed"
    dbLarge,        \* the database file is larger than the import limit
    files,          \* the files at the export and import paths
    lastExport,     \* history: what the last successful export-data wrote
    backupOut,      \* the last export-data or import-data call and its result
    initOut,        \* the last run of initializeDatabase, or of load-data, and its result
    keychain,       \* the entry of the system keychain
    keyFile,        \* the fallback file .keystore
    keyOut,         \* the last change of the key stores and its result
    getOut,         \* the last call of getKey, the key stores it saw and its result
    parseOut,       \* the last call of a function of the renderer: its argument and its result
    reinit,         \* the import-data or db:change-path call that awaits initializeDatabase, and the retry count of that run
    handlerOut      \* the last handler that ran on a db that is not null, and the handle it found

matchVars == <<appData, csvRow, matches>>

cryptoVars == <<dbKey, usedIvs, encLog, decIn, decOut>>

storeVars == <<table>>

importVars == <<csvTransactions, csvPreview, alertCount>>

validateVars == <<valIn, valOut>>

createVars == <<createOut>>

userVars == <<users, categories, userOut>>

updateVars == <<updateOut>>

rateVars == <<clock, attempts, rateLog, rateOut>>

backupVars == <<dbHandle, dbLarge, files, lastExport, backupOut>>

\* The variables of the specifications below SpecImport.
initVars == <<initOut>>

keyVars == <<keychain, keyFile, keyOut>>

getVars == <<getOut>>

parseVars == <<parseOut>>

awaitVars == <<reinit, handlerOut>>

restVars == <<createVars, userVars, updateVars, rateVars, backupVars,
             initVars,
             keyVars,
             getVars,
             parseVars,
             awaitVars>>

vars == <<appData, csvRow, matches, dbKey, usedIvs, encLog, decIn, decOut,
          table, csvTransactions, csvPreview, alertCount, valIn, valOut,
          createOut, users, categories, userOut,
          updateOut, clock, attempts, rateLog, rateOut,
          dbHandle, dbLarge, files, lastExport, backupOut,
          initOut,
          keychain, keyFile, keyOut,
          getOut,
          parseOut,
          reinit, handlerOut>>

----------------------------------------------------------------------------
(* Arithmetic helpers (Math.abs, Math.max, Math.min).                      *)

Abs(x) == IF x < 0 THEN -x ELSE x

Max(a, b) == IF a > b THEN a ELSE b

Min(a, b) == IF a < b THEN a ELSE b

----------------------------------------------------------------------------
(* Amounts: JavaScript numbers holding dollars and cents.                  *)

Amt(whole, cents) == [neg |-> FALSE, whole |-> whole, cents |-> cents]

\* -a
AmtNeg(a) == [a EXCEPT !.neg = ~a.neg /\ (a.whole # 0 \/ a.cents # 0)]

\* Math.abs(a)
AmtAbs(a) == [a EXCEPT !.neg = FALSE]

\* a < 0
AmtIsNegative(a) == a.neg /\ (a.whole # 0 \/ a.cents # 0)

\* |a| > |b|
MagGt(a, b) == a.whole > b.whole \/ (a.whole = b.whole /\ a.cents > b.cents)

\* | |a| - |b| |
MagDiff(a, b) ==
    LET hi == IF MagGt(a, b) THEN a ELSE b
        lo == IF MagGt(a, b) THEN b ELSE a
    IN IF hi.cents >= lo.cents
       THEN Amt(hi.whole - lo.whole, hi.cents - lo.cents)
       ELSE Amt(hi.whole - lo.whole - 1, hi.cents + 100 - lo.cents)

\* |a| + |b|
MagSum(a, b) ==
    IF a.cents + b.cents >= 100
    THEN Amt(a.whole + b.whole + 1, a.cents + b.cents - 100)
    ELSE Amt(a.whole + b.whole, a.cents + b.cents)

\* |a - b|
AmtDistance(a, b) ==
    IF AmtIsNegative(a) = AmtIsNegative(b) THEN MagDiff(a, b) ELSE MagSum(a, b)

----------------------------------------------------------------------------
(* The reconciliation matcher: findMatchesForCsvRow.                       *)

NoDate == 0

AmountToleranceCents == 1

\* 0.01
AmountTolerance == Amt(0, AmountToleranceCents)

DateWindow == 10

TypeBonus == 10

DateScoreBase == 20

MatchLimit == 10

\* Math.abs((targetDate - txDate) / (1000 * 60 * 60 * 24))
DaysDiff(csvDate, txDate) == Abs(csvDate - txDate)

\* The amounts a, among those of this model, for which the IEEE 754 double
\* (a + 0.01) - a is greater than the double 0.01:
\*   50.02 - 50.01 = 0.010000000000005116 and 1.01 - 1.00 = 0.010000000000000009,
\* whereas 50.01 - 50.00 = 50.00 - 49.99 = 0.00999999999999801, 0.01 - 0 = 0.01
\* and 999999999.99 - 999999999.98 = 0.009999990463256836.
RoundsAboveTolerance == { Amt(1, 0), Amt(50, 1) }

\* x - y > 0.01 in doubles, for magnitudes x >= y with two fraction digits:
\* exact when the difference is not one cent, the rounding of the subtraction
\* decides when it is.
DoubleDiffExceedsTolerance(x, y) ==
    IF MagDiff(x, y) = AmountTolerance
    THEN (IF MagGt(x, y) THEN y ELSE x) \in RoundsAboveTolerance
    ELSE MagGt(MagDiff(x, y), AmountTolerance)

\* if (Math.abs(txAmount - targetAmount) > 0.01) return;  with both amounts
\* taken through Math.abs(parseFloat(.)) first.
AmountMatches(tx, row) ==
    ~DoubleDiffExceedsTolerance(AmtAbs(tx.amount), AmtAbs(row.amount))

\* if (targetDate && tx.date) { ... if (daysDiff > 10) return; }
InDateRange(tx, row) ==
    ~(row.date # NoDate /\ tx.date # NoDate
      /\ DaysDiff(row.date, tx.date) > DateWindow)

IsEligible(tx, row) == AmountMatches(tx, row) /\ InDateRange(tx, row)

\* (mutation: the type bonus is forgotten)
MatchScoreNoTypeBonus(tx, row) ==
    IF row.date # NoDate /\ tx.date # NoDate
    THEN Max(0, DateScoreBase - DaysDiff(row.date, tx.date))
    ELSE 0

\* let score = 0; if (targetType && tx.type === targetType) score += 10;
\* if (targetDate && tx.date) score += Math.max(0, 20 - daysDiff);
MatchScore(tx, row) ==
    (IF row.type # "" /\ tx.type = row.type THEN TypeBonus ELSE 0)
    + (IF row.date # NoDate /\ tx.date # NoDate
       THEN Max(0, DateScoreBase - DaysDiff(row.date, tx.date))
       ELSE 0)

\* candidates.forEach(tx => { ...; matches.push({ transaction: tx, score }) })
RECURSIVE CollectMatches(_, _)
CollectMatches(txs, row) ==
    IF txs = <<>> THEN <<>>
    ELSE LET tx == Head(txs)
             rest == CollectMatches(Tail(txs), row)
         IN IF IsEligible(tx, row)
            THEN <<[transaction |-> tx, score |-> MatchScore(tx, row)]>> \o rest
            ELSE rest

\* One element put into a list already sorted by the comparator
\* (a, b) => b.score - a.score, after every element it does not precede:
\* Array.prototype.sort is stable.
RECURSIVE InsertByScore(_, _)
InsertByScore(m, sorted) ==
    IF sorted = <<>> THEN <<m>>
    ELSE IF Head(sorted).score >= m.score
         THEN <<Head(sorted)>> \o InsertByScore(m, Tail(sorted))
         ELSE <<m>> \o sorted

\* (mutation: the list is left in collection order)
SortByScoreSkipped(ms) == ms

\* matches.sort((a, b) => b.score - a.score)
RECURSIVE SortByScore(_)
SortByScore(ms) ==
    IF ms = <<>> THEN <<>>
    ELSE LET n == Len(ms)
         IN InsertByScore(ms[n], SortByScore(SubSeq(ms, 1, n - 1)))

\* matches.slice(0, 10)
SliceTop(ms) == SubSeq(ms, 1, Min(Len(ms), MatchLimit))

FindMatchesForCsvRow(row, txs) == SliceTop(SortByScore(CollectMatches(txs, row)))

----------------------------------------------------------------------------
(* JavaScript strings and the field encryption of EncryptedDatabase.       *)
(*                                                                         *)
(* A string is a sequence of symbols.  A "chr" symbol is one UTF-16 code   *)
(* unit ("HS"/"LS" stand for a high/low surrogate, "FFFD" for U+FFFD).  A  *)
(* hex run written by encrypt is one symbol: "iv" is hex(iv), "ct" is the  *)
(* hex of the AES-256-GCM ciphertext of the bytes pt under (key, iv), and  *)
(* "tag" is the hex of the authentication tag of that ciphertext.  A value *)
(* is null or a string.                                                    *)

Chr(c) == [k |-> "chr", c |-> c, key |-> 0, iv |-> 0, pt |-> <<>>]

IvHex(iv) == [k |-> "iv", c |-> "", key |-> 0, iv |-> iv, pt |-> <<>>]

TagHex(key, iv, pt) == [k |-> "tag", c |-> "", key |-> key, iv |-> iv, pt |-> pt]

CtHex(key, iv, pt) == [k |-> "ct", c |-> "", key |-> key, iv |-> iv, pt |-> pt]

Colon == Chr(":")

HighSurrogate == Chr("HS")

LowSurrogate == Chr("LS")

ReplacementChar == Chr("FFFD")

JsNull == [isNull |-> TRUE, s |-> <<>>]

Str(s) == [isNull |-> FALSE, s |-> s]

\* !text is false
Truthy(v) == ~v.isNull /\ v.s # <<>>

\* The UTF-8 bytes of a string, written as the string they decode to: a
\* surrogate pair is one 4-byte sequence, an unpaired surrogate is encoded as
\* U+FFFD (EF BF BD), every other code unit is kept.
RECURSIVE Utf8Encode(_)
Utf8Encode(s) ==
    IF s = <<>> THEN <<>>
    ELSE IF Len(s) >= 2 /\ s[1] = HighSurrogate /\ s[2] = LowSurrogate
         THEN <<s[1], s[2]>> \o Utf8Encode(SubSeq(s, 3, Len(s)))
         ELSE IF s[1] \in {HighSurrogate, LowSurrogate}
              THEN <<ReplacementChar>> \o Utf8Encode(Tail(s))
              ELSE <<s[1]>> \o Utf8Encode(Tail(s))

\* Decoding the bytes of well-formed UTF-8 gives the string they stand for.
Utf8Decode(bytes) == bytes

\* (mutation: a constant initialization vector)
EncryptFixedIv(key, iv, text) ==
    IF ~Truthy(text) THEN JsNull
    ELSE LET bytes == Utf8Encode(text.s)
         IN Str(<<IvHex(1), Colon, TagHex(key, 1, bytes), Colon,
                  CtHex(key, 1, bytes)>>)

\* encrypt(text), iv being the value crypto.randomBytes(16) returned:
\* iv.toString("hex") + ":" + authTag.toString("hex") + ":" + encrypted
Encrypt(key, iv, text) ==
    IF ~Truthy(text) THEN JsNull
    ELSE LET bytes == Utf8Encode(text.s)
         IN Str(<<IvHex(iv), Colon, TagHex(key, iv, bytes), Colon,
                  CtHex(key, iv, bytes)>>)

\* text.split(":")
RECURSIVE SplitColon(_)
SplitColon(s) ==
    IF \A i \in 1..Len(s) : s[i] # Colon THEN <<s>>
    ELSE LET i == CHOOSE j \in 1..Len(s) :
                    s[j] = Colon /\ \A h \in 1..(j - 1) : s[h] # Colon
         IN <<SubSeq(s, 1, i - 1)>> \o SplitColon(SubSeq(s, i + 1, Len(s)))

\* createDecipheriv, setAuthTag, update and final all succeed: the three
\* components are the iv, the tag and the ciphertext of one encryption under
\* this key.  Anything else (a component that is not hex of the right length,
\* a tag that does not verify) throws at one of these calls.
Authenticates(key, parts) ==
    /\ \A i \in 1..3 : Len(parts[i]) = 1
    /\ parts[1][1].k = "iv"
    /\ parts[2][1].k = "tag"
    /\ parts[3][1].k = "ct"
    /\ parts[2][1].key = key
    /\ parts[2][1].iv = parts[1][1].iv
    /\ parts[3][1].key = parts[2][1].key
    /\ parts[3][1].iv = parts[2][1].iv
    /\ parts[3][1].pt = parts[2][1].pt

\* The body of the try block of decrypt.
DecryptTry(key, text) ==
    LET parts == SplitColon(text.s)
    IN IF Len(parts) # 3 THEN [threw |-> FALSE, value |-> text]
       ELSE IF Authenticates(key, parts)
            THEN [threw |-> FALSE, value |-> Str(Utf8Decode(parts[3][1].pt))]
            ELSE [threw |-> TRUE, value |-> JsNull]

\* (mutation: the catch is missing)
DecryptNoCatch(key, text) ==
    IF ~Truthy(text) THEN [threw |-> FALSE, value |-> JsNull]
    ELSE DecryptTry(key, text)

\* decrypt(text): if (!text) return null; try { ... } catch { return null; }
Decrypt(key, text) ==
    IF ~Truthy(text) THEN [threw |-> FALSE, value |-> JsNull]
    ELSE LET r == DecryptTry(key, text)
         IN IF r.threw THEN [threw |-> FALSE, value |-> JsNull] ELSE r

----------------------------------------------------------------------------
(* Input validation (validation.ts).                                       *)
(* Every id is a string, every amount a number, every type a string: the   *)
(* typeof tests of validateTransactionData are not modelled.               *)

\* transaction.id is undefined
NoId == 0

Space == Chr(" ")

AmountCeilingWhole == 999999999

AmountCeilingCents == 99

\* 999999999.99
AmountCeiling == Amt(AmountCeilingWhole, AmountCeilingCents)

DescriptionMaxLength == 500

CategoryMaxLength == 100

CheckNumberMaxLength == 50

\* String.prototype.trim
RECURSIVE TrimStart(_)
TrimStart(s) ==
    IF s # <<>> /\ Head(s) = Space THEN TrimStart(Tail(s)) ELSE s

RECURSIVE TrimEnd(_)
TrimEnd(s) ==
    IF s # <<>> /\ s[Len(s)] = Space THEN TrimEnd(SubSeq(s, 1, Len(s) - 1))
    ELSE s

\* A control character, U+0001.
Ctl == Chr("\\x01")

\* input.replace(/[\x00-\x08\x0B\x0C\x0E-\x1F\x7F]/g, "")
RECURSIVE RemoveControl(_)
RemoveControl(s) ==
    IF s = <<>> THEN <<>>
    ELSE IF Head(s) = Ctl THEN RemoveControl(Tail(s))
         ELSE <<Head(s)>> \o RemoveControl(Tail(s))

\* sanitizeString(input, maxLength): control characters removed, trimmed,
\* cut to maxLength.
SanitizeString(s, maxLength) ==
    LET t == TrimEnd(TrimStart(RemoveControl(s)))
    IN SubSeq(t, 1, IF Len(t) < maxLength THEN Len(t) ELSE maxLength)

\* The violations validateTransactionData collects.
ValidationErrors(t) ==
    (IF t.date = NoDate THEN {"Transaction date is required"} ELSE {})
    \cup (IF ~Truthy(t.description)
          THEN {"Transaction description is required"} ELSE {})
    \cup (IF t.type \notin {"debit", "credit"}
          THEN {"Transaction type must be debit or credit"} ELSE {})
    \cup (IF MagGt(AmtAbs(t.amount), AmountCeiling)
          THEN {"Transaction amount exceeds maximum allowed value"} ELSE {})

\* validateTransactionData(transaction): throws when there is a violation,
\* returns the sanitized transaction otherwise.
ValidateTransactionData(t) ==
    LET errors == ValidationErrors(t)
    IN IF errors # {} THEN [threw |-> TRUE, errors |-> errors, value |-> t]
       ELSE [threw |-> FALSE, errors |-> {},
             value |->
               [id |-> t.id,
                date |-> t.date,
                description |->
                    Str(SanitizeString(t.description.s, DescriptionMaxLength)),
                amount |-> t.amount,
                type |-> t.type,
                category |->
                    IF Truthy(t.category)
                    THEN Str(SanitizeString(t.category.s, CategoryMaxLength))
                    ELSE JsNull,
                checkNumber |->
                    IF Truthy(t.checkNumber)
                    THEN Str(SanitizeString(t.checkNumber.s, CheckNumberMaxLength))
                    ELSE JsNull,
                isReconciled |-> t.isReconciled]]

----------------------------------------------------------------------------
(* The transactions table of EncryptedDatabase (db.ts).  One user owns all *)
(* rows; user_id, account_id and created_at are not modelled.              *)

StoredIds(tbl) == { tbl[i].id : i \in 1..Len(tbl) }

\* (mutation: the table has no primary key)
InsertRowNoPrimaryKey(tbl, row) ==
    [ok |-> TRUE, code |-> "", table |-> Append(tbl, row)]

\* stmt.run of the INSERT: description is NOT NULL, id is the PRIMARY KEY.
InsertRow(tbl, row) ==
    IF row.description.isNull
    THEN [ok |-> FALSE, code |-> "SQLITE_CONSTRAINT_NOTNULL", table |-> tbl]
    ELSE IF row.id \in StoredIds(tbl)
         THEN [ok |-> FALSE, code |-> "SQLITE_CONSTRAINT_PRIMARYKEY",
               table |-> tbl]
         ELSE [ok |-> TRUE, code |-> "", table |-> Append(tbl, row)]

CreateAttempts == 3

\* The row createTransaction binds: the fields as given, no encryption.
NewRow(id, data) ==
    [id |-> id,
     date |-> data.date,
     description |-> data.description,
     amount |-> data.amount,
     type |-> data.type,
     category |-> IF Truthy(data.category) THEN data.category ELSE JsNull,
     checkNumber |-> IF Truthy(data.checkNumber) THEN data.checkNumber ELSE JsNull,
     isReconciled |-> data.isReconciled]

\* (mutation: a primary-key violation is thrown like any other error)
CreateFromNoRetry(tbl, uuids, data, attempt) ==
    LET r == InsertRow(tbl, NewRow(uuids[attempt], data))
    IN IF r.ok
       THEN [threw |-> FALSE, id |-> uuids[attempt], attempts |-> attempt,
             table |-> r.table]
       ELSE [threw |-> TRUE, id |-> NoId, attempts |-> attempt, table |-> tbl]

\* createTransaction(transaction), uuids[k] being what the k-th call of
\* crypto.randomUUID() returns: up to 3 attempts, the next one after a
\* primary-key violation; the id of the input is never read.
RECURSIVE CreateFrom(_, _, _, _)
CreateFrom(tbl, uuids, data, attempt) ==
    IF attempt > CreateAttempts
    THEN [threw |-> TRUE, id |-> NoId, attempts |-> attempt - 1, table |-> tbl]
    ELSE LET r == InsertRow(tbl, NewRow(uuids[attempt], data))
         IN IF r.ok
            THEN [threw |-> FALSE, id |-> uuids[attempt], attempts |-> attempt,
                  table |-> r.table]
            ELSE IF r.code = "SQLITE_CONSTRAINT_PRIMARYKEY"
                 THEN CreateFrom(tbl, uuids, data, attempt + 1)
                 ELSE [threw |-> TRUE, id |-> NoId, attempts |-> attempt,
                       table |-> tbl]

\* createTransaction(transaction); attempts counts the calls of stmt.run.
CreateTransaction(tbl, uuids, data) == CreateFrom(tbl, uuids, data, 1)

\* getTransactionsByUserId: ORDER BY date DESC (rows of one date in rowid
\* order, as SQLite's sorter leaves them).
RECURSIVE InsertByDate(_, _)
InsertByDate(row, sorted) ==
    IF sorted = <<>> THEN <<row>>
    ELSE IF Head(sorted).date >= row.date
         THEN <<Head(sorted)>> \o InsertByDate(row, Tail(sorted))
         ELSE <<row>> \o sorted

RECURSIVE GetTransactionsByUserId(_)
GetTransactionsByUserId(tbl) ==
    IF tbl = <<>> THEN <<>>
    ELSE InsertByDate(tbl[Len(tbl)],
                      GetTransactionsByUserId(SubSeq(tbl, 1, Len(tbl) - 1)))

UpdatableFields ==
    {"date", "description", "amount", "type", "category", "checkNumber",
     "isReconciled"}

\* (mutation: a column that is not supplied is reset)
PatchedResetsOthers(row, u) ==
    [id |-> row.id,
     date |-> IF "date" \in u.set THEN u.date ELSE row.date,
     description |->
        IF "description" \in u.set THEN u.description ELSE row.description,
     amount |-> IF "amount" \in u.set THEN u.amount ELSE row.amount,
     type |-> IF "type" \in u.set THEN u.type ELSE row.type,
     category |-> IF "category" \in u.set THEN u.category ELSE row.category,
     checkNumber |->
        IF "checkNumber" \in u.set THEN u.checkNumber ELSE row.checkNumber,
     isReconciled |-> "isReconciled" \in u.set /\ u.isReconciled]

\* The row after UPDATE ... SET of the fields of updates that are not
\* undefined (updates.set): the values as given, no validation, no encryption.
Patched(row, u) ==
    [id |-> row.id,
     date |-> IF "date" \in u.set THEN u.date ELSE row.date,
     description |->
        IF "description" \in u.set THEN u.description ELSE row.description,
     amount |-> IF "amount" \in u.set THEN u.amount ELSE row.amount,
     type |-> IF "type" \in u.set THEN u.type ELSE row.type,
     category |-> IF "category" \in u.set THEN u.category ELSE row.category,
     checkNumber |->
        IF "checkNumber" \in u.set THEN u.checkNumber ELSE row.checkNumber,
     isReconciled |->
        IF "isReconciled" \in u.set THEN u.isReconciled ELSE row.isReconciled]

\* updateTransaction(id, updates)
\* changes is result.changes, 0 when nothing was run.
UpdateTransaction(tbl, id, u) ==
    IF id = NoId THEN [threw |-> TRUE, changes |-> 0, table |-> tbl]
    ELSE IF u.set \cap UpdatableFields = {}
         THEN [threw |-> FALSE, changes |-> 0, table |-> tbl]
    ELSE IF "description" \in u.set /\ u.description.isNull
              /\ id \in StoredIds(tbl)
         THEN [threw |-> TRUE, changes |-> 0, table |-> tbl]  \* NOT NULL
         ELSE [threw |-> FALSE,
               changes |-> Cardinality({ i \in 1..Len(tbl) : tbl[i].id = id }),
               table |-> [i \in 1..Len(tbl) |->
                            IF tbl[i].id = id THEN Patched(tbl[i], u)
                            ELSE tbl[i]]]

\* deleteTransaction(id)
DeleteTransaction(tbl, id) ==
    IF id = NoId THEN [threw |-> TRUE, table |-> tbl]
    ELSE LET Kept(row) == row.id # id
         IN [threw |-> FALSE, table |-> SelectSeq(tbl, Kept)]

\* markTransactionReconciled(id, isReconciled)
MarkTransactionReconciled(tbl, id, isReconciled) ==
    [i \in 1..Len(tbl) |->
        IF tbl[i].id = id THEN [tbl[i] EXCEPT !.isReconciled = isReconciled]
        ELSE tbl[i]]

----------------------------------------------------------------------------
(* The users table of EncryptedDatabase.  A row is [id, email, firstName,  *)
(* lastName, address]; email is UNIQUE NOT NULL, id is AUTOINCREMENT.      *)

UserEmails(usrs) == { usrs[i].email : i \in 1..Len(usrs) }

UserIds(usrs) == { usrs[i].id : i \in 1..Len(usrs) }

UserFields == {"firstName", "lastName", "address", "email"}

\* (mutation: the email column is not UNIQUE)
EmailNotUnique(usrs, id, email) == FALSE

\* email TEXT UNIQUE: a row other than row id holds this email.
EmailTaken(usrs, id, email) ==
    \E i \in 1..Len(usrs) : usrs[i].id # id /\ usrs[i].email = email

\* createUser(email, firstName, lastName, address); id is lastInsertRowid.
\* No row is ever deleted from users, so AUTOINCREMENT gives Len + 1.
CreateUser(usrs, email, firstName, lastName, address) ==
    IF email.isNull
    THEN [threw |-> TRUE, code |-> "SQLITE_CONSTRAINT_NOTNULL", id |-> 0,
          users |-> usrs]
    ELSE IF EmailTaken(usrs, 0, email)
    THEN [threw |-> TRUE, code |-> "SQLITE_CONSTRAINT_UNIQUE", id |-> 0,
          users |-> usrs]
    ELSE [threw |-> FALSE, code |-> "", id |-> Len(usrs) + 1,
          users |-> Append(usrs, [id |-> Len(usrs) + 1, email |-> email,
                                  firstName |-> firstName,
                                  lastName |-> lastName,
                                  address |-> address])]

\* The row after UPDATE users SET of the supplied fields.
PatchedUser(row, u) ==
    [id |-> row.id,
     email |-> IF "email" \in u.set THEN u.email ELSE row.email,
     firstName |-> IF "firstName" \in u.set THEN u.firstName ELSE row.firstName,
     lastName |-> IF "lastName" \in u.set THEN u.lastName ELSE row.lastName,
     address |-> IF "address" \in u.set THEN u.address ELSE row.address]

\* The UPDATE of updateUser violates a constraint of the email column.
EmailConstraintViolated(usrs, id, u) ==
    /\ "email" \in u.set
    /\ id \in UserIds(usrs)
    /\ (u.email.isNull \/ EmailTaken(usrs, id, u.email))

\* updateUser(id, updates)
UpdateUser(usrs, id, u) ==
    IF u.set \cap UserFields = {}
    THEN [threw |-> FALSE, changes |-> 0, users |-> usrs]
    ELSE IF EmailConstraintViolated(usrs, id, u)
         THEN [threw |-> TRUE, changes |-> 0, users |-> usrs]
         ELSE [threw |-> FALSE,
               changes |-> Cardinality({ i \in 1..Len(usrs) : usrs[i].id = id }),
               users |-> [i \in 1..Len(usrs) |->
                            IF usrs[i].id = id THEN PatchedUser(usrs[i], u)
                            ELSE usrs[i]]]

\* getUserByEmail(email): the row, or NoUser
NoUser == [id |-> 0]

GetUserByEmail(usrs, email) ==
    IF \E i \in 1..Len(usrs) : usrs[i].email = email
    THEN usrs[CHOOSE i \in 1..Len(usrs) : usrs[i].email = email]
    ELSE NoUser

----------------------------------------------------------------------------
(* The categories table.  A row is [id, userId, name, type, isDefault];    *)
(* cats.seq is the largest id AUTOINCREMENT has given out.                 *)

DefaultIncome ==
    <<"Salary", "Freelance Income", "Investment Income", "Rental Income",
      "Business Income", "Bonus", "Tax Refund", "Gift Received", "Other Income">>

DefaultExpense ==
    <<"Groceries", "Rent/Mortgage", "Utilities", "Transportation", "Healthcare",
      "Insurance", "Entertainment", "Dining Out", "Shopping", "Education",
      "Travel", "Personal Care", "Home Maintenance", "Subscriptions",
      "Debt Payment", "Savings", "Taxes", "Charity/Donations", "Other Expense">>

\* Object.entries(defaultCategories), flattened in iteration order.
DefaultCategories ==
    [i \in 1..Len(DefaultIncome) |-> [type |-> "income", name |-> DefaultIncome[i]]]
    \o [i \in 1..Len(DefaultExpense) |->
          [type |-> "expense", name |-> DefaultExpense[i]]]

\* getCategoriesByUserId(userId), as a set of rows
GetCategoriesByUserId(cats, userId) ==
    { cats.rows[i] : i \in { j \in 1..Len(cats.rows) : cats.rows[j].userId = userId } }

\* (mutation: the table has no UNIQUE(user_id, name, type))
CategoryNotUnique(cats, userId, name, type) == FALSE

\* UNIQUE(user_id, name, type)
CategoryTaken(cats, userId, name, type) ==
    \E i \in 1..Len(cats.rows) :
        /\ cats.rows[i].userId = userId
        /\ cats.rows[i].name = name
        /\ cats.rows[i].type = type

\* createCategory(userId, name, type, isDefault): the INSERT fails on the
\* CHECK of type, on the foreign key (foreign_keys = ON) and on UNIQUE.
CreateCategory(cats, usrs, userId, name, type, isDefault) ==
    IF \/ type \notin {"income", "expense"}
       \/ userId \notin UserIds(usrs)
       \/ CategoryTaken(cats, userId, name, type)
    THEN [threw |-> TRUE, id |-> 0, cats |-> cats]
    ELSE [threw |-> FALSE, id |-> cats.seq + 1,
          cats |-> [rows |-> Append(cats.rows,
                                    [id |-> cats.seq + 1, userId |-> userId,
                                     name |-> name, type |-> type,
                                     isDefault |-> isDefault]),
                    seq |-> cats.seq + 1]]

\* deleteCategory(id): DELETE ... WHERE id = ? AND is_default = 0
DeleteCategory(cats, id) ==
    [cats EXCEPT !.rows = SelectSeq(cats.rows,
                                    LAMBDA r : ~(r.id = id /\ ~r.isDefault))]

\* for (const name of list) try { createCategory(...) } catch { }
\* The k-th createCategory succeeds when it would on cats and no earlier
\* element of the list is the same (type, name), which by then is stored;
\* the rows that succeed take the next ids in the order of the list.
CreateEach(cats, usrs, userId, list, isDefault) ==
    LET numbered == [k \in 1..Len(list) |->
                        [k |-> k, type |-> list[k].type, name |-> list[k].name]]
        inserted ==
            SelectSeq(numbered, LAMBDA c :
                /\ ~CreateCategory(cats, usrs, userId, c.name, c.type,
                                   isDefault).threw
                /\ ~\E j \in 1..(c.k - 1) : list[j] = list[c.k])
    IN [rows |-> cats.rows \o
                 [i \in 1..Len(inserted) |->
                    [id |-> cats.seq + i, userId |-> userId,
                     name |-> inserted[i].name, type |-> inserted[i].type,
                     isDefault |-> isDefault]],
        seq |-> cats.seq + Len(inserted)]

\* (mutation: the defaults are inserted whatever the user has)
InitializeDefaultCategoriesAlways(cats, usrs, userId) ==
    CreateEach(cats, usrs, userId, DefaultCategories, TRUE)

\* initializeDefaultCategories(userId)
InitializeDefaultCategories(cats, usrs, userId) ==
    IF GetCategoriesByUserId(cats, userId) # {} THEN cats
    ELSE CreateEach(cats, usrs, userId, DefaultCategories, TRUE)

----------------------------------------------------------------------------
(* validateUserData (validation.ts).                                       *)

EmailMaxLength == 254

NameMaxLength == 100

\* [^\s@]+
NoSpaceNoAt(s) ==
    s # <<>> /\ \A i \in 1..Len(s) : s[i] # Space /\ s[i] # Chr("@")

\* isValidEmail(email): /^[^\s@]+@[^\s@]+\.[^\s@]+$/ and length <= 254
IsValidEmail(s) ==
    /\ Len(s) <= EmailMaxLength
    /\ \E i, j \in 1..Len(s) :
        /\ i < j
        /\ s[i] = Chr("@")
        /\ s[j] = Chr(".")
        /\ NoSpaceNoAt(SubSeq(s, 1, i - 1))
        /\ NoSpaceNoAt(SubSeq(s, i + 1, j - 1))
        /\ NoSpaceNoAt(SubSeq(s, j + 1, Len(s)))

\* validateUserData(user): throws, or returns the sanitized user.
ValidateUserData(user) ==
    IF \/ ~Truthy(user.email) \/ ~IsValidEmail(user.email.s)
       \/ (Truthy(user.firstName) /\ Len(user.firstName.s) > NameMaxLength)
       \/ (Truthy(user.lastName) /\ Len(user.lastName.s) > NameMaxLength)
    THEN [threw |-> TRUE, value |-> user]
    ELSE [threw |-> FALSE,
          value |->
            [email |-> Str(SanitizeString(user.email.s, EmailMaxLength)),
             firstName |->
                IF Truthy(user.firstName)
                THEN Str(SanitizeString(user.firstName.s, NameMaxLength))
                ELSE JsNull,
             lastName |->
                IF Truthy(user.lastName)
                THEN Str(SanitizeString(user.lastName.s, NameMaxLength))
                ELSE JsNull]]

----------------------------------------------------------------------------
(* The IPC handlers of the main process (main.ts).  The database is open   *)
(* and the user of the request exists.                                     *)

\* save-data, one element of data.transactions: validated, skipped when
\* invalid, an update of description, amount, category and isReconciled when a
\* row of that id exists, a createTransaction otherwise; an exception of the
\* store is logged and the element skipped.
TransactionToValidate(t) ==
    [id |-> t.id,
     date |-> t.date,
     description |-> IF Truthy(t.payee) THEN t.payee ELSE t.description,
     amount |-> t.amount,
     type |-> t.type,
     category |-> t.category,
     checkNumber |-> JsNull,        \* not copied by the handler
     isReconciled |-> t.isReconciled]

SaveTransaction(tbl, t, uuids) ==
    LET v == ValidateTransactionData(TransactionToValidate(t))
    IN IF v.threw THEN tbl
       ELSE IF v.value.id \in StoredIds(GetTransactionsByUserId(tbl))
            THEN UpdateTransaction(tbl, v.value.id,
                    [set |-> {"description", "amount", "category", "isReconciled"},
                     description |-> v.value.description,
                     amount |-> v.value.amount,
                     category |-> v.value.category,
                     isReconciled |-> v.value.isReconciled]).table
            ELSE CreateTransaction(tbl, uuids, v.value).table

\* Whether save-data reaches createTransaction for t.
SaveCreates(tbl, t) ==
    /\ ~ValidateTransactionData(TransactionToValidate(t)).threw
    /\ t.id \notin StoredIds(tbl)

\* load-data: the transactions of the reply.
LoadTransactions(tbl) == GetTransactionsByUserId(tbl)

----------------------------------------------------------------------------
(* SpecMatch: the matcher applied to lists the renderer can hold.          *)

\* The candidate before any call of the matcher.
NoRow ==
    [date |-> NoDate, description |-> JsNull, amount |-> Amt(0, 0),
     type |-> "", category |-> JsNull, checkNumber |-> JsNull,
     isReconciled |-> FALSE, selected |-> FALSE]

\* What parseCSV emits (a normalized date, an absolute amount, a type from the
\* sign, isReconciled false, selected true).
MatchRows ==
    { [date |-> 11, description |-> Str(<<Chr("a")>>), amount |-> a,
       type |-> t, category |-> JsNull, checkNumber |-> JsNull,
       isReconciled |-> FALSE, selected |-> TRUE]
      : t \in {"debit", "credit"}, a \in {Amt(50, 0), Amt(50, 1)} }

\* Stored amounts: 50.00, 50.02 and -50.00 (save-data and update-transaction
\* both store a negative amount).
MatchShapes ==
    [amount : {Amt(50, 0), Amt(50, 2), AmtNeg(Amt(50, 0))},
     type : {"debit", "credit"}, date : {NoDate, 20, 21, 22}]

\* An element of appData.transactions, as load-data maps a stored row.
MkItem(id, shape) ==
    [id |-> id, date |-> shape.date, description |-> Str(<<Chr("a")>>),
     amount |-> shape.amount, type |-> shape.type, category |-> JsNull,
     checkNumber |-> JsNull, isReconciled |-> (id % 2 = 0)]

MaxShort == 2

MaxStored == 11

ShortShapes == [amount : {Amt(50, 0), Amt(50, 2)}, type : {"debit", "credit"},
                date : {NoDate, 10, 20, 21, 22}]

ShortLists ==
    UNION { { [i \in 1..n |-> MkItem(i, f[i])] : f \in [1..n -> ShortShapes] }
            : n \in 0..MaxShort }

LongLists ==
    UNION { { [i \in 1..n |-> MkItem(i, IF i % p = 0 THEN s1 ELSE s2)]
              : p \in 2..3, s1 \in MatchShapes, s2 \in MatchShapes }
            : n \in MatchLimit..MaxStored }

StoredLists == ShortLists \cup LongLists

\* load-data has returned a list; no candidate has been matched against it.
MatchIdle ==
    /\ appData = <<>>
    /\ csvRow = NoRow
    /\ matches = <<>>

CryptoIdle ==
    /\ dbKey = 1
    /\ usedIvs = {}
    /\ encLog = <<>>
    /\ decIn = JsNull
    /\ decOut = [threw |-> FALSE, value |-> JsNull]

\* An empty transactions table.
StoreIdle == table = <<>>

\* The import dialog is closed and nothing has been imported.
ImportIdle ==
    /\ csvTransactions = <<>>
    /\ csvPreview = <<>>
    /\ alertCount = 0

\* createTransaction has not been called directly.
CreateIdle ==
    createOut = [called |-> FALSE, threw |-> FALSE, id |-> 0, attempts |-> 0,
                 uuids |-> <<>>, data |-> NoRow]

\* Empty users and categories tables.
UserIdle ==
    /\ users = <<>>
    /\ categories = [rows |-> <<>>, seq |-> 0]
    /\ userOut = [op |-> "", email |-> [isNull |-> TRUE, s |-> <<>>],
                  userId |-> 0, threw |-> FALSE, code |-> "", id |-> 0]

\* Neither updateTransaction nor updateUser has been called directly.
UpdateIdle ==
    updateOut = [called |-> FALSE, kind |-> "", id |-> 0, u |-> [set |-> {}],
                 threw |-> FALSE, changes |-> 0]

RateKeys == {"export", "other"}

\* A limiter just constructed, check never called.
RateIdle ==
    /\ clock = 0
    /\ attempts = [k \in RateKeys |-> <<>>]
    /\ rateLog = [k \in RateKeys |-> [times |-> <<>>, beforeReset |-> 0]]
    /\ rateOut = [n |-> 0, key |-> "", result |-> FALSE]

NoFile == [exists |-> FALSE]

BackupPaths == {"backup.enc"}

\* Nothing was exported or imported.
BackupFilesIdle ==
    /\ dbLarge = FALSE
    /\ files = [p \in BackupPaths |-> NoFile]
    /\ lastExport = [valid |-> FALSE]
    /\ backupOut = [n |-> 0, op |-> "", success |-> FALSE, error |-> ""]

\* The database was opened when the application started.
BackupIdle == dbHandle = "open" /\ BackupFilesIdle

\* initializeDatabase has not run.
InitIdle ==
    initOut = [n |-> 0, op |-> "", keyResults |-> <<>>, opens |-> FALSE,
               before |-> "", ok |-> FALSE, attempts |-> 0,
               success |-> FALSE, error |-> "", dataNull |-> FALSE]

\* No key in a key store.
NoKey == "none"

\* No key is stored and storeKey has not been called.
KeyIdle ==
    /\ keychain = NoKey
    /\ keyFile = NoKey
    /\ keyOut = [n |-> 0, op |-> "", keytar |-> FALSE, setPassword |-> "",
                 fileStep |-> "", key |-> NoKey, threw |-> FALSE,
                 success |-> FALSE, storage |-> "", error |-> ""]

\* getKey has not been called.
GetIdle ==
    getOut = [n |-> 0, op |-> "", keytar |-> FALSE, getPassword |-> "",
              keychain |-> NoKey, keyFile |-> NoKey, threw |-> FALSE,
              success |-> FALSE, key |-> NoKey, storage |-> "", error |-> ""]

\* No function of the renderer has been called.
ParseIdle == parseOut = [op |-> ""]

\* No handler is waiting for initializeDatabase and none has run.
AwaitIdle ==
    /\ reinit = [op |-> "", retryCount |-> 0]
    /\ handlerOut = [n |-> 0, handler |-> "", handle |-> "", during |-> "",
                     success |-> FALSE]

RestIdle == CreateIdle /\ UserIdle /\ UpdateIdle /\ RateIdle /\ BackupIdle /\ InitIdle /\ KeyIdle /\ GetIdle /\ ParseIdle /\ AwaitIdle

\* validateTransactionData has not been called.
ValidateIdle ==
    /\ valIn = NoRow
    /\ valOut = [threw |-> FALSE, errors |-> {}, value |-> NoRow]

MatchInit ==
    /\ appData \in StoredLists
    /\ csvRow = NoRow
    /\ matches = <<>>
    /\ CryptoIdle /\ StoreIdle /\ ImportIdle /\ ValidateIdle /\ RestIdle

\* displayCsvPreview: const matches = findMatchesForCsvRow(transaction)
MatchRun ==
    \E row \in MatchRows :
        /\ csvRow' = row
        /\ matches' = FindMatchesForCsvRow(row, appData)
        /\ UNCHANGED <<appData, cryptoVars, storeVars, importVars, validateVars, restVars>>

MatchNext == MatchRun

SpecMatch == MatchInit /\ [][MatchNext]_vars

----------------------------------------------------------------------------
(* SpecCrypto: encrypt and decrypt called on an open store.                *)
(* crypto.randomBytes(16) is taken to return a value it has not returned   *)
(* before (usedIvs): a repeated 128-bit random value is not modelled.      *)

NumKeys == 2

NumIvs == 3

MaxEncCalls == 2

A == Chr("a")

Plaintexts ==
    { JsNull, Str(<<>>), Str(<<A>>), Str(<<A, Colon, A, Colon, A>>),
      Str(<<HighSurrogate, LowSurrogate>>), Str(<<A, HighSurrogate>>),
      Str(<<ReplacementChar>>) }

\* Three hex runs joined by colons: every triple encrypt can write under any
\* key, and every such triple with a component taken from another one.
HexTriples ==
    { Str(<<IvHex(i), Colon, TagHex(k1, i1, p1), Colon, CtHex(k2, i2, p2)>>)
      : i \in 1..2, k1 \in 1..NumKeys, i1 \in 1..2, k2 \in 1..NumKeys,
        i2 \in 1..2, p1 \in {<<A>>, <<A, Colon, A>>}, p2 \in {<<A>>, <<A, Colon, A>>} }

\* Values a column can hold: null, the empty string, text never encrypted
\* (with zero to three colons), hex triples, and a triple cut or extended.
StoredValues ==
    { JsNull, Str(<<>>), Str(<<A>>), Str(<<A, Colon, A>>),
      Str(<<A, Colon, A, Colon, A>>), Str(<<A, Colon, A, Colon, A, Colon, A>>),
      Str(<<IvHex(1), Colon, TagHex(1, 1, <<A>>)>>),
      Str(<<IvHex(1), Colon, TagHex(1, 1, <<A>>), Colon, CtHex(1, 1, <<A>>), A>>),
      Str(<<IvHex(1), Colon, TagHex(1, 1, <<A>>), Colon, CtHex(1, 1, <<A>>),
            Colon, A>>) }
    \cup HexTriples

CryptoInit ==
    /\ MatchIdle /\ StoreIdle /\ ImportIdle /\ ValidateIdle /\ RestIdle
    /\ dbKey \in 1..NumKeys
    /\ usedIvs = {}
    /\ encLog = <<>>
    /\ decIn = JsNull
    /\ decOut = [threw |-> FALSE, value |-> JsNull]

\* A call db.encrypt(text).
EncryptCall ==
    /\ Len(encLog) < MaxEncCalls
    /\ \E text \in Plaintexts :
        IF Truthy(text)
        THEN \E iv \in (1..NumIvs) \ usedIvs :
                /\ usedIvs' = usedIvs \cup {iv}
                /\ encLog' = Append(encLog, [text |-> text,
                                             out |-> Encrypt(dbKey, iv, text)])
        ELSE /\ usedIvs' = usedIvs
             /\ encLog' = Append(encLog, [text |-> text,
                                          out |-> Encrypt(dbKey, 1, text)])
    /\ UNCHANGED <<dbKey, decIn, decOut, matchVars, storeVars, importVars,
                   validateVars, restVars>>

\* A call db.decrypt(text) of a value encrypt returned.
DecryptCall ==
    /\ \E i \in 1..Len(encLog) :
        /\ decIn' = encLog[i].out
        /\ decOut' = Decrypt(dbKey, encLog[i].out)
    /\ UNCHANGED <<dbKey, usedIvs, encLog, matchVars, storeVars, importVars,
                   validateVars, restVars>>

CryptoNext == EncryptCall \/ DecryptCall

SpecCrypto == CryptoInit /\ [][CryptoNext]_vars

\* SpecDecrypt: a call db.decrypt(text) of a value found in a column.
DecryptStored ==
    /\ \E text \in StoredValues :
        /\ decIn' = text
        /\ decOut' = Decrypt(dbKey, text)
    /\ UNCHANGED <<dbKey, usedIvs, encLog, matchVars, storeVars, importVars,
                   validateVars, restVars>>

SpecDecrypt == CryptoInit /\ [][DecryptStored]_vars

----------------------------------------------------------------------------
(* Spec: the transaction-writing IPC handlers called in any order.         *)

NumUuids == 2

\* A string of the caller that is no UUID (such as "txn_123").
CallerId == 99

Uuids == 1..NumUuids

\* What three successive calls of crypto.randomUUID() can return.
UuidDraws == [1..CreateAttempts -> Uuids]

IpcIds == Uuids \cup {NoId, CallerId}

BaseTransaction ==
    [id |-> NoId, date |-> 11, payee |-> JsNull, description |-> Str(<<A>>),
     amount |-> Amt(50, 0), type |-> "debit", category |-> Str(<<A>>),
     checkNumber |-> JsNull, isReconciled |-> FALSE]

\* Elements of data.transactions of a save-data request.
SaveInputs ==
    { [BaseTransaction EXCEPT !.id = id, !.amount = a]
        : id \in IpcIds,
          a \in {Amt(50, 0), AmtNeg(Amt(5, 0)), Amt(AmountCeilingWhole + 1, 0)} }
    \cup { [BaseTransaction EXCEPT !.id = id, !.isReconciled = TRUE]
            : id \in IpcIds }
    \cup { [BaseTransaction EXCEPT !.id = id, !.type = "transfer"] : id \in IpcIds }
    \cup { [BaseTransaction EXCEPT !.id = id, !.description = Str(<<>>)]
            : id \in IpcIds }
    \cup { [BaseTransaction EXCEPT !.id = id, !.date = NoDate] : id \in IpcIds }

BaseUpdates ==
    [set |-> {}, date |-> 11, description |-> Str(<<A>>), amount |-> Amt(50, 0),
     type |-> "debit", category |-> JsNull, checkNumber |-> JsNull,
     isReconciled |-> FALSE]

\* The updates argument of an update-transaction request.
UpdateInputs ==
    { BaseUpdates,
      [BaseUpdates EXCEPT !.set = {"amount"}, !.amount = AmtNeg(Amt(5, 0))],
      [BaseUpdates EXCEPT !.set = {"type"}, !.type = "transfer"],
      [BaseUpdates EXCEPT !.set = {"isReconciled"}, !.isReconciled = TRUE],
      [BaseUpdates EXCEPT !.set = {"description"}, !.description = JsNull] }

StoreInit ==
    /\ table = <<>>
    /\ MatchIdle /\ CryptoIdle /\ ImportIdle /\ ValidateIdle /\ RestIdle

\* ipcMain.handle("save-data") with one transaction.
SaveData ==
    /\ Len(table) <= NumUuids
    /\ \E t \in SaveInputs :
        IF SaveCreates(table, t)
        THEN \E uuids \in UuidDraws : table' = SaveTransaction(table, t, uuids)
        ELSE table' = SaveTransaction(table, t, [k \in 1..CreateAttempts |-> 1])
    /\ UNCHANGED <<matchVars, cryptoVars, importVars, validateVars, restVars>>

\* ipcMain.handle("update-transaction")
UpdateTransactionHandler ==
    /\ \E id \in IpcIds, u \in UpdateInputs :
        table' = UpdateTransaction(table, id, u).table
    /\ UNCHANGED <<matchVars, cryptoVars, importVars, validateVars, restVars>>

\* ipcMain.handle("delete-transaction")
DeleteTransactionHandler ==
    /\ \E id \in IpcIds : table' = DeleteTransaction(table, id).table
    /\ UNCHANGED <<matchVars, cryptoVars, importVars, validateVars, restVars>>

\* ipcMain.handle("db:mark-reconciled")
MarkReconciledHandler ==
    /\ \E id \in IpcIds, b \in BOOLEAN :
        table' = MarkTransactionReconciled(table, id, b)
    /\ UNCHANGED <<matchVars, cryptoVars, importVars, validateVars, restVars>>

Next ==
    \/ SaveData
    \/ UpdateTransactionHandler
    \/ DeleteTransactionHandler
    \/ MarkReconciledHandler

Spec == StoreInit /\ [][Next]_vars

----------------------------------------------------------------------------
(* SpecValidate: validateTransactionData called on a transaction.          *)

ValidateInputs ==
    [id : {NoId}, date : {NoDate, 11},
     description : {Str(<<>>), Str(<<A>>), Str(<<Space, A, Space>>)},
     amount : {AmtNeg(Amt(AmountCeilingWhole + 1, 0)), AmtNeg(Amt(5, 0)),
               AmtNeg(Amt(0, 1)), Amt(0, 0), Amt(0, 1), Amt(50, 0),
               AmountCeiling, Amt(AmountCeilingWhole + 1, 0)},
     type : {"debit", "credit", "transfer"},
     category : {JsNull}, checkNumber : {JsNull}, isReconciled : {FALSE}]

ValidateInit ==
    /\ ValidateIdle
    /\ MatchIdle /\ CryptoIdle /\ StoreIdle /\ ImportIdle /\ RestIdle

ValidateCall ==
    /\ \E t \in ValidateInputs :
        /\ valIn' = t
        /\ valOut' = ValidateTransactionData(t)
    /\ UNCHANGED <<matchVars, cryptoVars, storeVars, importVars, restVars>>

SpecValidate == ValidateInit /\ [][ValidateCall]_vars

----------------------------------------------------------------------------
(* SpecImport: the renderer's transaction form and CSV import dialog on    *)
(* top of the store.  crypto.randomUUID() returns an id that is not stored *)
(* (a collision is the subject of Spec); the import dialog is modal.       *)

\* The id crypto.randomUUID() returns: which unused one is immaterial here.
FreshUuids(tbl) ==
    LET id == CHOOSE u \in Uuids \ StoredIds(tbl) :
                \A v \in Uuids \ StoredIds(tbl) : u <= v
    IN [k \in 1..CreateAttempts |-> id]

\* transactionData of submitTransaction: payee is required and the amount is
\* parseFloat of the field, any number but 0 (and NaN).
FormInputs ==
    [date : {11}, payee : {Str(<<A>>)},
     amount : {Amt(50, 0), AmtNeg(Amt(50, 0))}, type : {"debit"}]

\* submitTransaction without editingTransactionId: save-data, then load-data.
SubmitNewTransaction ==
    /\ csvTransactions = <<>>
    /\ Len(table) < NumUuids
    /\ \E f \in FormInputs :
        table' = SaveTransaction(table,
                    [id |-> NoId, date |-> f.date, payee |-> f.payee,
                     description |-> f.payee, amount |-> f.amount,
                     type |-> f.type, category |-> JsNull,
                     checkNumber |-> JsNull, isReconciled |-> FALSE],
                    FreshUuids(table))
    /\ appData' = LoadTransactions(table')
    /\ UNCHANGED <<csvRow, matches, cryptoVars, importVars, validateVars, restVars>>

\* submitTransaction with editingTransactionId: update-transaction with the
\* whole transactionData, then load-data.
SubmitEditedTransaction ==
    /\ csvTransactions = <<>>
    /\ \E k \in 1..Len(appData), f \in FormInputs :
        table' = UpdateTransaction(table, appData[k].id,
                    [set |-> UpdatableFields, date |-> f.date,
                     description |-> f.payee, amount |-> f.amount,
                     type |-> f.type, category |-> JsNull,
                     checkNumber |-> JsNull, isReconciled |-> FALSE]).table
    /\ appData' = LoadTransactions(table')
    /\ UNCHANGED <<csvRow, matches, cryptoVars, importVars, validateVars, restVars>>

\* A candidate as parseCSV pushes it: description is the trimmed description
\* field, which may be empty (a line such as 2024-01-11,,50.00).
CsvCandidate(description, type) ==
    [date |-> 11, description |-> description, amount |-> Amt(50, 0),
     type |-> type, category |-> JsNull, checkNumber |-> JsNull,
     isReconciled |-> FALSE, selected |-> TRUE]

\* What parseCSV returns for the files of the model.
CsvFiles ==
    { <<CsvCandidate(Str(<<A>>), "debit")>>,
      <<CsvCandidate(Str(<<>>), "debit")>>,
      <<CsvCandidate(Str(<<A>>), "debit"), CsvCandidate(Str(<<>>), "credit")>>,
      <<CsvCandidate(Str(<<A>>), "credit"), CsvCandidate(Str(<<A>>), "debit")>> }

\* displayCsvPreview, one card: the radios of the offered matches, and the
\* one checked at first (the first match unless it is reconciled; NoId is the
\* radio "new", or no radio at all).
PreviewCard(row, txs) ==
    LET ms == FindMatchesForCsvRow(row, txs)
    IN [offered |-> [i \in 1..Len(ms) |-> ms[i].transaction.id],
        checked |-> IF ms # <<>> /\ ~ms[1].transaction.isReconciled
                    THEN ms[1].transaction.id ELSE NoId]

\* openCsvImport: parseCSV, displayCsvPreview.
OpenCsvImport ==
    /\ csvTransactions = <<>>
    /\ \E file \in CsvFiles :
        /\ csvTransactions' = file
        /\ csvPreview' = [i \in 1..Len(file) |-> PreviewCard(file[i], appData)]
    /\ UNCHANGED <<matchVars, cryptoVars, storeVars, alertCount, validateVars,
                   restVars>>

\* A click on the checkbox of card i (read back by confirmCsvImport).
ToggleCsvCheckbox ==
    /\ \E i \in 1..Len(csvTransactions) :
        csvTransactions' =
            [csvTransactions EXCEPT ![i].selected = ~csvTransactions[i].selected]
    /\ UNCHANGED <<matchVars, cryptoVars, storeVars, csvPreview, alertCount,
                   validateVars, restVars>>

\* A click on a radio of card i.
SelectCsvMatch ==
    /\ \E i \in 1..Len(csvPreview) :
        \E v \in {NoId} \cup { csvPreview[i].offered[j]
                                : j \in 1..Len(csvPreview[i].offered) } :
            csvPreview' = [csvPreview EXCEPT ![i].checked = v]
    /\ UNCHANGED <<matchVars, cryptoVars, storeVars, csvTransactions, alertCount,
                   validateVars, restVars>>

\* updateCsvTransactionType(index, newType)
UpdateCsvTransactionType ==
    /\ \E i \in 1..Len(csvTransactions), newType \in {"debit", "credit"} :
        csvTransactions' = [csvTransactions EXCEPT ![i].type = newType]
    /\ UNCHANGED <<matchVars, cryptoVars, storeVars, csvPreview, alertCount,
                   validateVars, restVars>>

\* closeCsvImportModal, from the Cancel button.
CloseCsvImportModal ==
    /\ csvTransactions # <<>>
    /\ csvTransactions' = <<>>
    /\ csvPreview' = <<>>
    /\ UNCHANGED <<matchVars, cryptoVars, storeVars, alertCount, validateVars,
                   restVars>>

SelectedNew(rows, cards) ==
    { i \in 1..Len(rows) : rows[i].selected /\ cards[i].checked = NoId }

SelectedMatched(rows, cards) ==
    { i \in 1..Len(rows) : rows[i].selected /\ cards[i].checked # NoId }

\* The loop of confirmCsvImport from candidate i on: markReconciled of the
\* checked match, or save-data of the candidate with isReconciled true; the
\* reply is only logged.
RECURSIVE ImportFrom(_, _, _, _)
ImportFrom(tbl, rows, cards, i) ==
    IF i > Len(rows) THEN tbl
    ELSE IF ~rows[i].selected THEN ImportFrom(tbl, rows, cards, i + 1)
    ELSE IF cards[i].checked # NoId
         THEN ImportFrom(MarkTransactionReconciled(tbl, cards[i].checked, TRUE),
                         rows, cards, i + 1)
         ELSE ImportFrom(
                SaveTransaction(tbl,
                    [id |-> NoId, date |-> rows[i].date,
                     payee |-> rows[i].description,
                     description |-> rows[i].description,
                     amount |-> rows[i].amount, type |-> rows[i].type,
                     category |-> rows[i].category,
                     checkNumber |-> rows[i].checkNumber,
                     isReconciled |-> TRUE],
                    FreshUuids(tbl)),
                rows, cards, i + 1)

\* confirmCsvImport with at least one candidate selected (with none it only
\* alerts): the loop, load-data, closeCsvImportModal, the alert.
ConfirmCsvImport ==
    /\ \E i \in 1..Len(csvTransactions) : csvTransactions[i].selected
    /\ Len(table) + Cardinality(SelectedNew(csvTransactions, csvPreview)) <= NumUuids
    /\ table' = ImportFrom(table, csvTransactions, csvPreview, 1)
    /\ appData' = LoadTransactions(table')
    /\ csvTransactions' = <<>>
    /\ csvPreview' = <<>>
    /\ alertCount' = Cardinality({ i \in 1..Len(csvTransactions) :
                                    csvTransactions[i].selected })
    /\ UNCHANGED <<csvRow, matches, cryptoVars, validateVars, restVars>>

ImportInit == StoreInit

ImportNext ==
    \/ SubmitNewTransaction
    \/ SubmitEditedTransaction
    \/ OpenCsvImport
    \/ ToggleCsvCheckbox
    \/ SelectCsvMatch
    \/ UpdateCsvTransactionType
    \/ CloseCsvImportModal
    \/ ConfirmCsvImport

SpecImport == ImportInit /\ [][ImportNext]_vars

----------------------------------------------------------------------------
(* SpecCreate: createTransaction called directly on the store, with rows   *)
(* deleted in between.                                                     *)

\* The transaction argument: valid ones, and one that violates NOT NULL.
CreateInputs ==
    { [BaseTransaction EXCEPT !.amount = a]
        : a \in {Amt(50, 0), AmtNeg(Amt(5, 0))} }
    \cup { [BaseTransaction EXCEPT !.description = JsNull, !.id = CallerId] }

CreateInit ==
    /\ StoreInit

\* db.createTransaction(data)
CreateTransactionCall ==
    /\ \E data \in CreateInputs, uuids \in UuidDraws :
        LET r == CreateTransaction(table, uuids, data)
        IN /\ table' = r.table
           /\ createOut' = [called |-> TRUE, threw |-> r.threw, id |-> r.id,
                            attempts |-> r.attempts, uuids |-> uuids,
                            data |-> data]
    /\ UNCHANGED <<matchVars, cryptoVars, importVars, validateVars, userVars,
                   updateVars,
                   rateVars,
                   backupVars,
                   initVars,
                   keyVars,
                   getVars,
                   parseVars,
                   awaitVars>>

\* db.deleteTransaction(id)
DeleteTransactionCall ==
    /\ \E id \in Uuids : table' = DeleteTransaction(table, id).table
    /\ UNCHANGED <<matchVars, cryptoVars, importVars, validateVars, restVars>>

CreateNext == CreateTransactionCall \/ DeleteTransactionCall

SpecCreate == CreateInit /\ [][CreateNext]_vars

----------------------------------------------------------------------------
(* The user and category parts of save-data and load-data (main.ts).       *)

\* `${type}:${name}` is not in existingNames
NotExisting(existing, list) ==
    SelectSeq(list, LAMBDA c :
        ~\E r \in existing : r.type = c.type /\ r.name = c.name)

\* save-data without data.transactions: the user is created with its
\* default categories or, when the email is stored, its names are updated;
\* then the categories of data.categories that are not stored are added.
\* data.user.id is the id the caller sent (0: none).
SaveUser(usrs, cats, data) ==
    LET v == ValidateUserData(data.user)
        existingUser == GetUserByEmail(usrs, v.value.email)
        created == CreateUser(usrs, v.value.email, v.value.firstName,
                              v.value.lastName, JsNull)
        updated ==
            IF Truthy(v.value.firstName) \/ Truthy(v.value.lastName)
            THEN UpdateUser(usrs, existingUser.id,
                            [set |-> {"firstName", "lastName"},
                             firstName |-> v.value.firstName,
                             lastName |-> v.value.lastName,
                             email |-> JsNull, address |-> JsNull])
            ELSE [threw |-> FALSE, changes |-> 0, users |-> usrs]
    IN IF ~Truthy(data.user.email)
       THEN [success |-> TRUE, id |-> data.user.id, users |-> usrs, cats |-> cats]
       ELSE IF v.threw
       THEN [success |-> FALSE, id |-> 0, users |-> usrs, cats |-> cats]
       ELSE IF existingUser = NoUser
       THEN IF created.threw
            THEN [success |-> FALSE, id |-> 0, users |-> usrs, cats |-> cats]
            ELSE [success |-> TRUE, id |-> created.id, users |-> created.users,
                  cats |-> InitializeDefaultCategories(cats, created.users,
                                                       created.id)]
       ELSE IF updated.threw
            THEN [success |-> FALSE, id |-> 0, users |-> usrs, cats |-> cats]
            ELSE [success |-> TRUE, id |-> existingUser.id,
                  users |-> updated.users, cats |-> cats]

SaveUserAndCategories(usrs, cats, data) ==
    LET r == SaveUser(usrs, cats, data)
    IN IF ~r.success \/ ~data.hasCategories \/ r.id = 0 THEN r
       ELSE [r EXCEPT !.cats =
               CreateEach(r.cats, r.users, r.id,
                          NotExisting(GetCategoriesByUserId(r.cats, r.id),
                                      data.categories),
                          FALSE)]

\* load-data(email): the user of that email, or some first user when no
\* email is given (created_at has a resolution of one second); the default
\* categories are created when the user has no category.
LoadDataUsers(usrs, email) ==
    IF Truthy(email) THEN {GetUserByEmail(usrs, email)}
    ELSE IF usrs = <<>> THEN {NoUser}
         ELSE { usrs[i] : i \in 1..Len(usrs) }

LoadData(usrs, cats, user) ==
    IF user = NoUser \/ GetCategoriesByUserId(cats, user.id) # {} THEN cats
    ELSE InitializeDefaultCategories(cats, usrs, user.id)

----------------------------------------------------------------------------
(* SpecUsers: calls on the users and categories tables, directly and       *)
(* through save-data and load-data.                                        *)

MaxUsers == 2

At == Chr("@")

Dot == Chr(".")

B == Chr("b")

EmailA == Str(<<A, At, A, Dot, A>>)

EmailB == Str(<<B, At, A, Dot, A>>)

Emails == {EmailA, EmailB}

BaseUserUpdates ==
    [set |-> {}, email |-> EmailA, firstName |-> Str(<<B>>),
     lastName |-> JsNull, address |-> JsNull]

MaxDeletedCategories == 1

NoEmail == JsNull

\* a@a.a with a control character, which sanitizeString removes
EmailACtl == Str(<<A, Ctl, At, A, Dot, A>>)

CustomCategories ==
    { [type |-> "income", name |-> "Salary"],
      [type |-> "transfer", name |-> "Pets"] }

\* data of a save-data request without transactions
SaveUserInputs ==
    { [user |-> [email |-> e, firstName |-> Str(<<A>>), lastName |-> JsNull,
                 id |-> 0],
       hasCategories |-> FALSE, categories |-> <<>>]
        : e \in {EmailA, EmailB, EmailACtl, Str(<<A>>)} }
    \cup { [user |-> [email |-> EmailA, firstName |-> Str(<<A>>),
                      lastName |-> JsNull, id |-> 0],
            hasCategories |-> TRUE,
            categories |-> <<[type |-> "expense", name |-> "Pets"],
                             [type |-> "expense", name |-> "Pets"],
                             [type |-> "income", name |-> "Salary"]>>] }

UsersInit == StoreInit

UserOut(op, email, userId, threw, code, id) ==
    [op |-> op, email |-> email, userId |-> userId, threw |-> threw,
     code |-> code, id |-> id]

\* createUser(email, "a", null, null)
CreateUserDirect ==
    /\ Len(users) <= MaxUsers
    /\ \E email \in Emails :
        LET r == CreateUser(users, email, Str(<<A>>), JsNull, JsNull)
        IN /\ users' = r.users
           /\ userOut' = UserOut("createUser", email, 0, r.threw, r.code, r.id)
    /\ UNCHANGED <<matchVars, cryptoVars, storeVars, importVars, validateVars,
                   createVars, categories, updateVars,
                   rateVars,
                   backupVars,
                   initVars,
                   keyVars,
                   getVars,
                   parseVars,
                   awaitVars>>

\* updateUser(id, {email})
UpdateUserDirect ==
    /\ \E id \in 1..MaxUsers, email \in Emails :
        LET r == UpdateUser(users, id,
                            [BaseUserUpdates EXCEPT !.set = {"email"},
                                                    !.email = email])
        IN /\ users' = r.users
           /\ userOut' = UserOut("updateUser", email, id, r.threw,
                                 IF r.threw THEN "SQLITE_CONSTRAINT_UNIQUE"
                                 ELSE "", r.changes)
    /\ UNCHANGED <<matchVars, cryptoVars, storeVars, importVars, validateVars,
                   createVars, categories, updateVars,
                   rateVars,
                   backupVars,
                   initVars,
                   keyVars,
                   getVars,
                   parseVars,
                   awaitVars>>

\* ipcMain.handle("save-data") with a user and categories
SaveDataUser ==
    /\ Len(users) <= MaxUsers
    /\ \E data \in SaveUserInputs :
        LET r == SaveUserAndCategories(users, categories, data)
        IN /\ users' = r.users
           /\ categories' = r.cats
           /\ userOut' = UserOut("save-data", JsNull, 0, ~r.success, "", r.id)
    /\ UNCHANGED <<matchVars, cryptoVars, storeVars, importVars, validateVars,
                   createVars, updateVars,
                   rateVars,
                   backupVars,
                   initVars,
                   keyVars,
                   getVars,
                   parseVars,
                   awaitVars>>

\* ipcMain.handle("load-data")
LoadDataCall ==
    /\ \E email \in {NoEmail, EmailA} :
        \E user \in LoadDataUsers(users, email) :
            /\ categories' = LoadData(users, categories, user)
            /\ userOut' = UserOut("load-data", JsNull, 0, FALSE, "", user.id)
    /\ UNCHANGED <<matchVars, cryptoVars, storeVars, importVars, validateVars,
                   createVars, users, updateVars,
                   rateVars,
                   backupVars,
                   initVars,
                   keyVars,
                   getVars,
                   parseVars,
                   awaitVars>>

\* initializeDefaultCategories(userId)
InitializeDefaultCategoriesCall ==
    /\ \E userId \in 1..MaxUsers :
        /\ categories' = InitializeDefaultCategories(categories, users, userId)
        /\ userOut' = UserOut("initializeDefaultCategories", JsNull, userId,
                              FALSE, "", 0)
    /\ UNCHANGED <<matchVars, cryptoVars, storeVars, importVars, validateVars,
                   createVars, users, updateVars,
                   rateVars,
                   backupVars,
                   initVars,
                   keyVars,
                   getVars,
                   parseVars,
                   awaitVars>>

\* createCategory(userId, name, type, false)
CreateCategoryCall ==
    /\ categories.seq - Len(categories.rows) <= MaxDeletedCategories
    /\ \E userId \in 1..MaxUsers, c \in CustomCategories :
        LET r == CreateCategory(categories, users, userId, c.name, c.type, FALSE)
        IN /\ categories' = r.cats
           /\ userOut' = UserOut("createCategory", JsNull, 0, r.threw, "", 0)
    /\ UNCHANGED <<matchVars, cryptoVars, storeVars, importVars, validateVars,
                   createVars, users, updateVars,
                   rateVars,
                   backupVars,
                   initVars,
                   keyVars,
                   getVars,
                   parseVars,
                   awaitVars>>

\* deleteCategory(id) of the first or the latest category
DeleteCategoryCall ==
    /\ categories.seq - Len(categories.rows) < MaxDeletedCategories
    /\ \E id \in {1, categories.seq} :
        /\ categories' = DeleteCategory(categories, id)
        /\ userOut' = UserOut("deleteCategory", JsNull, 0, FALSE, "", 0)
    /\ UNCHANGED <<matchVars, cryptoVars, storeVars, importVars, validateVars,
                   createVars, users, updateVars,
                   rateVars,
                   backupVars,
                   initVars,
                   keyVars,
                   getVars,
                   parseVars,
                   awaitVars>>

UsersNext ==
    \/ CreateUserDirect
    \/ UpdateUserDirect
    \/ SaveDataUser

SpecUsers == UsersInit /\ [][UsersNext]_vars

CategoriesNext ==
    \/ CreateUserDirect
    \/ SaveDataUser
    \/ LoadDataCall
    \/ InitializeDefaultCategoriesCall
    \/ CreateCategoryCall
    \/ DeleteCategoryCall

SpecCategories == UsersInit /\ [][CategoriesNext]_vars

----------------------------------------------------------------------------
(* RateLimiter (validation.ts) and SpecRate: one limiter                   *)
(* new RateLimiter(RateMax, RateWindow), its check and reset called for two *)
(* keys while the clock advances.                                          *)

RateMax == 2

RateWindow == 2

MaxNow == 3

MaxAccepted == 3

\* (mutation: an attempt exactly windowMs old still counts)
RecentAttemptsInclusive(list, t) ==
    SelectSeq(list, LAMBDA timestamp : t - timestamp <= RateWindow)

\* userAttempts.filter((timestamp) => now - timestamp < this.windowMs)
RecentAttempts(list, t) ==
    SelectSeq(list, LAMBDA timestamp : t - timestamp < RateWindow)

\* check(key) at Date.now() = t
Check(att, key, t) ==
    LET recentAttempts == RecentAttempts(att[key], t)
    IN IF Len(recentAttempts) >= RateMax
       THEN [result |-> FALSE, attempts |-> att]
       ELSE [result |-> TRUE,
             attempts |-> [att EXCEPT ![key] = Append(recentAttempts, t)]]

\* reset(key): this.attempts.delete(key)
Reset(att, key) == [att EXCEPT ![key] = <<>>]

RateInit == StoreInit

\* Time passes.
Tick ==
    /\ clock < MaxNow
    /\ clock' = clock + 1
    /\ UNCHANGED <<matchVars, cryptoVars, storeVars, importVars, validateVars,
                   createVars, userVars, updateVars, attempts, rateLog, rateOut,
                   backupVars,
                   initVars,
                   keyVars,
                   getVars,
                   parseVars,
                   awaitVars>>

CheckCall ==
    /\ \E key \in RateKeys :
        LET r == Check(attempts, key, clock)
        IN /\ Len(rateLog["export"].times) + Len(rateLog["other"].times)
                < MaxAccepted
           /\ attempts' = r.attempts
           /\ rateLog' = IF r.result
                         THEN [rateLog EXCEPT ![key].times = Append(@, clock)]
                         ELSE rateLog
           /\ rateOut' = [n |-> 1 - rateOut.n, key |-> key, result |-> r.result]
    /\ UNCHANGED <<matchVars, cryptoVars, storeVars, importVars, validateVars,
                   createVars, userVars, updateVars, clock,
                   backupVars,
                   initVars,
                   keyVars,
                   getVars,
                   parseVars,
                   awaitVars>>

ResetCall ==
    /\ \E key \in RateKeys :
        /\ attempts' = Reset(attempts, key)
        /\ rateLog' = [rateLog EXCEPT ![key].beforeReset = Len(rateLog[key].times)]
    /\ UNCHANGED <<matchVars, cryptoVars, storeVars, importVars, validateVars,
                   createVars, userVars, updateVars, clock, rateOut,
                   backupVars,
                   initVars,
                   keyVars,
                   getVars,
                   parseVars,
                   awaitVars>>

RateNext == Tick \/ CheckCall \/ ResetCall

SpecRate == RateInit /\ [][RateNext]_vars

----------------------------------------------------------------------------
(* Backup and restore (main.ts): initializeDatabase, export-data and       *)
(* import-data.  The database file is `table` with the flag dbLarge; an    *)
(* exported file is the record of what was encrypted and with which        *)
(* password, its salt, iv and tag being fresh and not written out.         *)

MaxRetries == 3

PasswordMinLength == 8

\* encryptionKeyManager.getKey() resolved with a key, resolved without one,
\* or rejected.
KeyResults == {"key", "nokey", "throws"}

\* initializeDatabase that gives up after the first getKey.
InitializeDatabaseNoRetry(keyResults, opens, retryCount) ==
    [ok |-> keyResults[retryCount + 1] = "key" /\ opens,
     attempts |-> retryCount + 1]

\* initializeDatabase(retryCount): keyResults[k] is what the k-th getKey
\* gives, opens tells whether new EncryptedDatabase(dbPath, key) returns.
RECURSIVE InitializeDatabase(_, _, _)
InitializeDatabase(keyResults, opens, retryCount) ==
    IF keyResults[retryCount + 1] = "key" /\ opens
    THEN [ok |-> TRUE, attempts |-> retryCount + 1]
    ELSE IF retryCount < MaxRetries
         THEN InitializeDatabase(keyResults, opens, retryCount + 1)
         ELSE [ok |-> FALSE, attempts |-> retryCount + 1]

\* validateFilePath(filePath) throws: the path is empty or holds ".."
InvalidPaths == {"", "../backup.enc"}

\* encryptFileData(data, password)
EncryptFileData(data, password) ==
    [exists |-> TRUE, password |-> password, data |-> data, corrupted |-> FALSE]

\* (mutation: the authentication tag is not checked)
DecryptFileDataNoAuth(file, password) == [threw |-> FALSE, data |-> file.data]

\* decryptFileData(encryptedData, password): decipher.final() throws unless
\* the key derived from the password and the bytes are those of encryption.
DecryptFileData(file, password) ==
    IF file.corrupted \/ file.password # password
    THEN [threw |-> TRUE, data |-> [table |-> <<>>, large |-> FALSE]]
    ELSE [threw |-> FALSE, data |-> file.data]

\* (mutation: the snapshot is taken of an empty database)
ExportDataEmpty(handle, att, now, tbl, large, fs, exportPath, password) ==
    LET limit == Check(att, "export", now)
    IN IF ~limit.result
       THEN [success |-> FALSE, attempts |-> att, files |-> fs,
             error |-> "Too many export requests. Please wait and try again."]
       ELSE [success |-> TRUE, error |-> "", attempts |-> limit.attempts,
             files |-> [fs EXCEPT ![exportPath] =
                EncryptFileData([table |-> <<>>, large |-> large], password)]]

\* export-data that validates the path and the password before it asks the
\* rate limiter.
ExportDataValidatesFirst(handle, att, now, tbl, large, fs, exportPath, password) ==
    LET limit == Check(att, "export", now)
    IN IF handle = "none"
       THEN [success |-> FALSE, attempts |-> att, files |-> fs,
             error |-> "Database not initialized"]
       ELSE IF exportPath \in InvalidPaths
       THEN [success |-> FALSE, attempts |-> att, files |-> fs,
             error |-> "Invalid file path"]
       ELSE IF Len(password) < PasswordMinLength
       THEN [success |-> FALSE, attempts |-> att, files |-> fs,
             error |-> "Password must be at least 8 characters long"]
       ELSE IF ~limit.result
       THEN [success |-> FALSE, attempts |-> att, files |-> fs,
             error |-> "Too many export requests. Please wait and try again."]
       ELSE IF handle # "open"
       THEN [success |-> FALSE, attempts |-> limit.attempts, files |-> fs,
             error |-> "Export failed. Please try again."]
       ELSE [success |-> TRUE, error |-> "", attempts |-> limit.attempts,
             files |-> [fs EXCEPT ![exportPath] =
                EncryptFileData([table |-> tbl, large |-> large], password)]]

\* ipcMain.handle("export-data")
ExportData(handle, att, now, tbl, large, fs, exportPath, password) ==
    LET limit == Check(att, "export", now)
    IN IF handle = "none"
       THEN [success |-> FALSE, attempts |-> att, files |-> fs,
             error |-> "Database not initialized"]
       ELSE IF ~limit.result
       THEN [success |-> FALSE, attempts |-> att, files |-> fs,
             error |-> "Too many export requests. Please wait and try again."]
       ELSE IF exportPath \in InvalidPaths
       THEN [success |-> FALSE, attempts |-> limit.attempts, files |-> fs,
             error |-> "Invalid file path"]
       ELSE IF Len(password) < PasswordMinLength
       THEN [success |-> FALSE, attempts |-> limit.attempts, files |-> fs,
             error |-> "Password must be at least 8 characters long"]
       ELSE IF handle # "open"
       THEN [success |-> FALSE, attempts |-> limit.attempts, files |-> fs,
             error |-> "Export failed. Please try again."]
       ELSE [success |-> TRUE, error |-> "", attempts |-> limit.attempts,
             files |-> [fs EXCEPT ![exportPath] =
                EncryptFileData([table |-> tbl, large |-> large], password)]]

\* ipcMain.handle("import-data"): replaced tells that the database file was
\* written, reopened that initializeDatabase returned true after it.
ImportData(handle, tbl, large, fs, importPath, password, keyResults) ==
    LET same(error) ==
            [success |-> FALSE, error |-> error, handle |-> handle,
             table |-> tbl, large |-> large, replaced |-> FALSE,
             reopened |-> FALSE]
    IN IF importPath \in InvalidPaths THEN same("Invalid file path")
       ELSE IF ~fs[importPath].exists THEN same("Import file not found")
       ELSE IF password = <<>> THEN same("Password is required")
       ELSE IF fs[importPath].data.large
       THEN same("Import file is too large (max 100MB)")
       ELSE LET d == DecryptFileData(fs[importPath], password)
                init == InitializeDatabase(keyResults, TRUE, 0)
            IN IF d.threw THEN same("Incorrect password or corrupted file")
               ELSE [success |-> TRUE, error |-> "",
                     handle |-> IF init.ok THEN "open"
                                ELSE IF handle = "none" THEN "none"
                                ELSE "closed",
                     table |-> d.data.table, large |-> d.data.large,
                     replaced |-> TRUE, reopened |-> init.ok]

----------------------------------------------------------------------------
(* SpecBackup: export-data and import-data on a store that                 *)
(* createTransaction and deleteTransaction change, with an export file that *)
(* may get damaged.                                                        *)

MaxBackupRows == 1

Password1 == [i \in 1..PasswordMinLength |-> A]

Password2 == [i \in 1..PasswordMinLength |-> B]

Passwords == {Password1, Password2, <<A>>, <<>>}

\* What the four getKey calls of one initializeDatabase give: the key at
\* once, the key at the last retry, or never.
KeyResultSeqs ==
    { <<"key", "key", "key", "key">>, <<"nokey", "throws", "nokey", "key">>,
      <<"nokey", "nokey", "throws", "nokey">> }

BackupInit == StoreInit

\* createTransaction(BaseTransaction) with a uuid that is not stored; the
\* database file may grow past the import limit.
BackupCreate ==
    /\ dbHandle = "open"
    /\ Len(table) < MaxBackupRows
    /\ LET id == CHOOSE i \in Uuids \ StoredIds(table) : TRUE
       IN table' = CreateTransaction(table, [k \in 1..CreateAttempts |-> id],
                                     BaseTransaction).table
    /\ \E grows \in BOOLEAN : dbLarge' = (dbLarge \/ grows)
    /\ UNCHANGED <<matchVars, cryptoVars, importVars, validateVars, createVars,
                   userVars, updateVars, rateVars, dbHandle, files, lastExport,
                   backupOut,
                   initVars,
                   keyVars,
                   getVars,
                   parseVars,
                   awaitVars>>

\* deleteTransaction(id)
BackupDelete ==
    /\ dbHandle = "open"
    /\ \E id \in Uuids : table' = DeleteTransaction(table, id).table
    /\ UNCHANGED <<matchVars, cryptoVars, importVars, validateVars, restVars>>

\* The bytes of an exported file change on disk.
CorruptFile ==
    /\ \E p \in BackupPaths :
        /\ files[p].exists
        /\ files' = [files EXCEPT ![p].corrupted = TRUE]
    /\ lastExport' = [valid |-> FALSE]
    /\ UNCHANGED <<matchVars, cryptoVars, storeVars, importVars, validateVars,
                   createVars, userVars, updateVars, rateVars, dbHandle, dbLarge,
                   backupOut,
                   initVars,
                   keyVars,
                   getVars,
                   parseVars,
                   awaitVars>>

ExportDataCall ==
    /\ \E exportPath \in BackupPaths \cup {"../backup.enc"},
          password \in Passwords :
        LET r == ExportData(dbHandle, attempts, clock, table, dbLarge, files,
                            exportPath, password)
        IN /\ attempts' = r.attempts
           /\ files' = r.files
           /\ lastExport' =
                IF r.success
                THEN [valid |-> TRUE, path |-> exportPath,
                      password |-> password, table |-> table]
                ELSE lastExport
           /\ backupOut' = [n |-> 1 - backupOut.n, op |-> "export-data",
                            success |-> r.success, error |-> r.error,
                            valid |-> /\ exportPath \notin InvalidPaths
                                      /\ Len(password) >= PasswordMinLength]
    /\ UNCHANGED <<matchVars, cryptoVars, storeVars, importVars, validateVars,
                   createVars, userVars, updateVars, clock, rateLog, rateOut,
                   dbHandle, dbLarge,
                   initVars,
                   keyVars,
                   getVars,
                   parseVars,
                   awaitVars>>

ImportDataCall ==
    /\ \E importPath \in BackupPaths \cup {"../backup.enc"},
          password \in Passwords, keyResults \in KeyResultSeqs :
        LET r == ImportData(dbHandle, table, dbLarge, files, importPath,
                            password, keyResults)
        IN /\ dbHandle' = r.handle
           /\ table' = r.table
           /\ dbLarge' = r.large
           /\ backupOut' = [n |-> 1 - backupOut.n, op |-> "import-data",
                            success |-> r.success, error |-> r.error,
                            path |-> importPath, password |-> password,
                            wrongPassword |->
                                /\ importPath \in BackupPaths
                                /\ files[importPath].exists
                                /\ files[importPath].password # password,
                            corrupted |->
                                /\ importPath \in BackupPaths
                                /\ files[importPath].exists
                                /\ files[importPath].corrupted,
                            replaced |-> r.replaced, reopened |-> r.reopened,
                            changed |-> r.table # table]
    /\ UNCHANGED <<matchVars, cryptoVars, importVars, validateVars, createVars,
                   userVars, updateVars, rateVars, files, lastExport,
                   initVars,
                   keyVars,
                   getVars,
                   parseVars,
                   awaitVars>>

BackupNext ==
    \/ BackupCreate
    \/ BackupDelete
    \/ CorruptFile
    \/ ExportDataCall
    \/ ImportDataCall

SpecBackup == BackupInit /\ [][BackupNext]_vars

----------------------------------------------------------------------------
(* SpecInit: the application starts without an open database; the key is   *)
(* stored through encryption:store-key and the database is opened by       *)
(* initializeDatabase, at start, on load-data or after the key was stored. *)

\* The step of storeKeyInFile that throws, "" when none does.
FileSteps == {"", "mkdirSync", "writeFileSync"}

\* keytar.setPassword resolves or rejects.
SetPasswordResults == {"resolves", "rejects"}

StoreKeyInputs == {"k1"}

\* storeKey that gives up when the keychain rejects the key.
StoreKeyNoFallback(chain, file, keytar, setPassword, fileStep, encryptionKey) ==
    IF keytar /\ setPassword = "resolves"
    THEN [threw |-> FALSE, success |-> TRUE, storage |-> "keychain",
          error |-> "", keychain |-> encryptionKey, keyFile |-> file]
    ELSE [threw |-> FALSE, success |-> FALSE, storage |-> "",
          error |-> "setPassword", keychain |-> chain, keyFile |-> file]

\* storeKeyInFile(encryptionKey): every step runs inside the try block.
StoreKeyInFile(chain, file, fileStep, encryptionKey) ==
    IF fileStep = ""
    THEN [threw |-> FALSE, success |-> TRUE, storage |-> "file",
          error |-> "", keychain |-> chain, keyFile |-> encryptionKey]
    ELSE [threw |-> FALSE, success |-> FALSE, storage |-> "",
          error |-> fileStep, keychain |-> chain, keyFile |-> file]

\* storeKey(encryptionKey); keytar tells whether require("keytar") loaded.
StoreKey(chain, file, keytar, setPassword, fileStep, encryptionKey) ==
    IF keytar
    THEN IF setPassword = "resolves"
         THEN [threw |-> FALSE, success |-> TRUE, storage |-> "keychain",
               error |-> "", keychain |-> encryptionKey, keyFile |-> file]
         ELSE StoreKeyInFile(chain, file, fileStep, encryptionKey)
    ELSE StoreKeyInFile(chain, file, fileStep, encryptionKey)

\* What the getKey calls of one initializeDatabase give: the key at the
\* first, second, third or fourth call, or at none.
InitKeyResults ==
    { <<"key", "key", "key", "key">>, <<"nokey", "key", "key", "key">>,
      <<"throws", "nokey", "key", "key">>, <<"nokey", "throws", "nokey", "key">>,
      <<"nokey", "nokey", "nokey", "nokey">>,
      <<"throws", "nokey", "throws", "throws">> }

NotInitialized == "Database not initialized. Please complete onboarding."

\* let db: EncryptedDatabase | null, before app.whenReady().
InitInit ==
    /\ table = <<>>
    /\ MatchIdle /\ CryptoIdle /\ ImportIdle /\ ValidateIdle
    /\ CreateIdle /\ UserIdle /\ UpdateIdle /\ RateIdle
    /\ dbHandle = "none" /\ BackupFilesIdle
    /\ InitIdle /\ KeyIdle /\ GetIdle /\ ParseIdle /\ AwaitIdle

InitOut(op, before, keyResults, opens, r, success, error, dataNull) ==
    [n |-> 1 - initOut.n, op |-> op, before |-> before,
     keyResults |-> keyResults, opens |-> opens, ok |-> r.ok,
     attempts |-> r.attempts, success |-> success, error |-> error,
     dataNull |-> dataNull]

\* app.whenReady(): initializeDatabase()
WhenReady ==
    /\ initOut.op = ""
    /\ \E keyResults \in InitKeyResults, opens \in BOOLEAN :
        LET r == InitializeDatabase(keyResults, opens, 0)
        IN /\ dbHandle' = IF r.ok THEN "open" ELSE dbHandle
           /\ initOut' = InitOut("whenReady", dbHandle, keyResults, opens, r,
                                 r.ok, "", FALSE)
    /\ UNCHANGED <<matchVars, cryptoVars, storeVars, importVars, validateVars,
                   createVars, userVars, updateVars, rateVars, dbLarge, files,
                   lastExport, backupOut, keyVars,
                   getVars,
                   parseVars,
                   awaitVars>>

\* ipcMain.handle("load-data")
LoadDataHandler ==
    /\ initOut.op # ""
    /\ dbHandle \in {"none", "open"}
    /\ \E email \in {NoEmail, EmailA}, keyResults \in InitKeyResults,
          opens \in BOOLEAN :
        LET r == IF dbHandle = "none"
                 THEN InitializeDatabase(keyResults, opens, 0)
                 ELSE [ok |-> TRUE, attempts |-> 0]
        IN IF ~r.ok
           THEN /\ initOut' = InitOut("load-data", dbHandle, keyResults,
                                      opens, r, FALSE, NotInitialized, FALSE)
                /\ UNCHANGED <<dbHandle, categories,
                   getVars,
                   parseVars,
                   awaitVars>>
           ELSE \E user \in LoadDataUsers(users, email) :
                /\ dbHandle' = "open"
                /\ categories' = LoadData(users, categories, user)
                /\ initOut' = InitOut("load-data", dbHandle,
                                      IF dbHandle = "none" THEN keyResults
                                      ELSE <<>>,
                                      dbHandle = "none" /\ opens, r, TRUE, "",
                                      user = NoUser)
    /\ UNCHANGED <<matchVars, cryptoVars, storeVars, importVars, validateVars,
                   createVars, users, userOut, updateVars, rateVars, dbLarge,
                   files, lastExport, backupOut, keyVars,
                   getVars,
                   parseVars,
                   awaitVars>>

\* ipcMain.handle("encryption:store-key")
EncryptionStoreKey ==
    /\ initOut.op # ""
    /\ \E keytar \in BOOLEAN, setPassword \in SetPasswordResults,
          fileStep \in FileSteps, key \in StoreKeyInputs,
          keyResults \in InitKeyResults, opens \in BOOLEAN :
        LET result == StoreKey(keychain, keyFile, keytar, setPassword,
                               fileStep, key)
            r == InitializeDatabase(keyResults, opens, 0)
        IN /\ keychain' = result.keychain
           /\ keyFile' = result.keyFile
           /\ keyOut' = [n |-> 1 - keyOut.n, op |-> "storeKey",
                         keytar |-> keytar, setPassword |-> setPassword,
                         fileStep |-> fileStep, key |-> key,
                         threw |-> result.threw, success |-> result.success,
                         storage |-> result.storage, error |-> result.error]
           /\ IF result.success
              THEN /\ dbHandle' = IF r.ok THEN "open" ELSE dbHandle
                   /\ initOut' = InitOut("encryption:store-key", dbHandle,
                                         keyResults, opens, r, r.ok,
                                         IF r.ok THEN ""
                                         ELSE "Failed to initialize database with encryption key",
                                         FALSE)
              ELSE UNCHANGED <<dbHandle, initOut,
                   getVars,
                   parseVars,
                   awaitVars>>
    /\ UNCHANGED <<matchVars, cryptoVars, storeVars, importVars, validateVars,
                   createVars, userVars, updateVars, rateVars, dbLarge, files,
                   lastExport, backupOut,
                   getVars,
                   parseVars,
                   awaitVars>>

InitNext ==
    \/ WhenReady
    \/ LoadDataHandler
    \/ EncryptionStoreKey

SpecInit == InitInit /\ [][InitNext]_vars

----------------------------------------------------------------------------
(* SpecKey: calls of storeKey, getKey and deleteKey on one key manager;    *)
(* the fallback file may be damaged between the calls.                     *)

\* The keys handed to storeKey.
KeyInputs == {"k1", "k2"}

\* A fallback file that does not split into three parts, and one whose
\* parts do not decrypt under the key of this machine.
DamagedFiles == {"malformed", "undecryptable"}

\* keytar.getPassword resolves or rejects.
GetPasswordResults == {"resolves", "rejects"}

\* getKeyFromFile()
GetKeyFromFile(file) ==
    IF file = NoKey
    THEN [threw |-> FALSE, success |-> FALSE, key |-> NoKey, storage |-> "",
          error |-> "No encryption key found"]
    ELSE IF file = "malformed"
         THEN [threw |-> FALSE, success |-> FALSE, key |-> NoKey,
               storage |-> "", error |-> "Invalid key file format"]
         ELSE IF file = "undecryptable"
              THEN [threw |-> FALSE, success |-> FALSE, key |-> NoKey,
                    storage |-> "", error |-> "decipher.final"]
              ELSE [threw |-> FALSE, success |-> TRUE, key |-> file,
                    storage |-> "file", error |-> ""]

\* getKey that reads the fallback file first.
GetKeyFileFirst(chain, file, keytar, getPassword) ==
    IF GetKeyFromFile(file).success \/ ~keytar \/ getPassword = "rejects"
       \/ chain = NoKey
    THEN GetKeyFromFile(file)
    ELSE [threw |-> FALSE, success |-> TRUE, key |-> chain,
          storage |-> "keychain", error |-> ""]

\* getKey(); keytar tells whether require("keytar") loaded.
GetKey(chain, file, keytar, getPassword) ==
    IF keytar /\ getPassword = "resolves" /\ chain # NoKey
    THEN [threw |-> FALSE, success |-> TRUE, key |-> chain,
          storage |-> "keychain", error |-> ""]
    ELSE GetKeyFromFile(file)

\* deleteKey()
DeleteKey(chain, file, keytar, deletePassword, unlinks) ==
    [keychain |-> IF keytar /\ deletePassword = "resolves" THEN NoKey
                  ELSE chain,
     keyFile |-> IF file # NoKey /\ unlinks THEN NoKey ELSE file,
     deleted |-> \/ keytar /\ deletePassword = "resolves" /\ chain # NoKey
                 \/ file # NoKey /\ unlinks]

KeyInit == StoreInit

\* storeKey(key) of a manager whose constructor loaded keytar or not.
StoreKeyCall ==
    /\ \E keytar \in BOOLEAN,
          setPassword \in SetPasswordResults, fileStep \in FileSteps,
          key \in KeyInputs :
        LET result == StoreKey(keychain, keyFile, keytar, setPassword,
                               fileStep, key)
        IN /\ keychain' = result.keychain
           /\ keyFile' = result.keyFile
           /\ keyOut' = [n |-> 0, op |-> "storeKey",
                         keytar |-> keytar, setPassword |-> setPassword,
                         fileStep |-> fileStep, key |-> key,
                         threw |-> result.threw, success |-> result.success,
                         storage |-> result.storage, error |-> result.error]
    /\ UNCHANGED <<matchVars, cryptoVars, storeVars, importVars, validateVars,
                   createVars, userVars, updateVars, rateVars, backupVars,
                   initVars, getVars,
                   parseVars,
                   awaitVars>>

GetKeyCall ==
    /\ \E keytar \in BOOLEAN,
          getPassword \in GetPasswordResults :
        LET result == GetKey(keychain, keyFile, keytar, getPassword)
        IN getOut' = [n |-> 1 - getOut.n, op |-> "getKey",
                      keytar |-> keytar, getPassword |-> getPassword,
                      keychain |-> keychain, keyFile |-> keyFile,
                      threw |-> result.threw, success |-> result.success,
                      key |-> result.key, storage |-> result.storage,
                      error |-> result.error]
    /\ UNCHANGED <<matchVars, cryptoVars, storeVars, importVars, validateVars,
                   createVars, userVars, updateVars, rateVars, backupVars,
                   initVars, keychain, keyFile, keyOut,
                   parseVars,
                   awaitVars>>

DeleteKeyCall ==
    /\ \E keytar \in BOOLEAN, deletePassword \in {"resolves", "rejects"},
          unlinks \in BOOLEAN :
        LET r == DeleteKey(keychain, keyFile, keytar, deletePassword,
                           unlinks)
        IN /\ keychain' = r.keychain
           /\ keyFile' = r.keyFile
           /\ keyOut' = [n |-> 0, op |-> "deleteKey",
                         keytar |-> FALSE, setPassword |-> "",
                         fileStep |-> "", key |-> NoKey, threw |-> FALSE,
                         success |-> r.deleted, storage |-> "", error |-> ""]
    /\ UNCHANGED <<matchVars, cryptoVars, storeVars, importVars, validateVars,
                   createVars, userVars, updateVars, rateVars, backupVars,
                   initVars, getVars,
                   parseVars,
                   awaitVars>>

\* The fallback file is overwritten from outside, or the attributes that
\* make the key of this machine change.
DamageKeyFile ==
    /\ keyFile # NoKey
    /\ \E damaged \in DamagedFiles : keyFile' = damaged
    /\ keyOut' = [n |-> 0, op |-> "damaged", keytar |-> FALSE,
                  setPassword |-> "", fileStep |-> "", key |-> NoKey,
                  threw |-> FALSE, success |-> FALSE, storage |-> "",
                  error |-> ""]
    /\ UNCHANGED <<matchVars, cryptoVars, storeVars, importVars, validateVars,
                   createVars, userVars, updateVars, rateVars, backupVars,
                   initVars, keychain, getVars,
                   parseVars,
                   awaitVars>>

KeyNext ==
    \/ StoreKeyCall
    \/ GetKeyCall
    \/ DeleteKeyCall
    \/ DamageKeyFile

SpecKey == KeyInit /\ [][KeyNext]_vars

----------------------------------------------------------------------------
(* The CSV parser of the renderer. A text is a sequence of words, each a   *)
(* run of characters that is kept or dropped as a whole, with a flag that  *)
(* tells whether it has upper-case letters.                                *)

Text(words, upper) == [words |-> words, upper |-> upper]

\* String.prototype.toLowerCase
ToLowerCase(s) == [s EXCEPT !.upper = FALSE]

\* String.prototype.trim
TrimText(s) ==
    LET w == s.words
        inner == { i \in DOMAIN w : w[i] # " " }
    IN IF inner = {} THEN [s EXCEPT !.words = <<>>]
       ELSE LET lo == CHOOSE i \in inner : \A j \in inner : i <= j
                hi == CHOOSE i \in inner : \A j \in inner : j <= i
            IN [s EXCEPT !.words = SubSeq(w, lo, hi)]

\* s.includes(word) for a lower-case word
IncludesWord(s, word) == ~s.upper /\ \E i \in DOMAIN s.words : s.words[i] = word

\* s === word for a lower-case text
IsWords(s, words) == s = Text(words, FALSE)

\* The largest and the smallest member of a set of indices, -1 when empty.
LastOf(S) == IF S = {} THEN 0 - 1 ELSE CHOOSE i \in S : \A j \in S : j <= i
FirstOf(S) == IF S = {} THEN 0 - 1 ELSE CHOOSE i \in S : \A j \in S : i <= j

\* The branches of detectColumns on h = header.toLowerCase().trim()
IsDateHeader(h) == IsWords(h, <<"date">>) \/ IncludesWord(h, "date")
IsDescriptionHeader(h) ==
    \/ IsWords(h, <<"description">>) \/ IsWords(h, <<"payee">>)
    \/ IsWords(h, <<"memo">>) \/ IncludesWord(h, "description")
IsAmountHeader(h) ==
    \/ IsWords(h, <<"amount">>) \/ IncludesWord(h, "amt")
    \/ IsWords(h, <<"debit">>) \/ IsWords(h, <<"credit">>)
IsCategoryHeader(h) == IsWords(h, <<"category">>) \/ IncludesWord(h, "category")
IsCheckHeader(h) ==
    \/ IsWords(h, <<"check">>) \/ IsWords(h, <<"check", " ", "number">>)
    \/ IsWords(h, <<"check", " ", "#">>) \/ IncludesWord(h, "check")

\* The branch of the if / else if chain that a header takes.
HeaderBranch(header) ==
    LET h == TrimText(ToLowerCase(header))
    IN IF IsDateHeader(h) THEN "date"
       ELSE IF IsDescriptionHeader(h) THEN "description"
       ELSE IF IsAmountHeader(h) THEN "amount"
       ELSE IF IsCategoryHeader(h) THEN "category"
       ELSE IF IsCheckHeader(h) THEN "checkNumber"
       ELSE ""

\* detectColumns(headers): indices count from 0; every assignment but the
\* one of amount overwrites an earlier one.
DetectColumns(headers) ==
    LET at(b) == { i - 1 : i \in { k \in DOMAIN headers :
                                     HeaderBranch(headers[k]) = b } }
    IN [date |-> LastOf(at("date")), description |-> LastOf(at("description")),
        amount |-> FirstOf(at("amount")), category |-> LastOf(at("category")),
        checkNumber |-> LastOf(at("checkNumber"))]

----------------------------------------------------------------------------
(* SpecColumns: detectColumns on header rows of up to MaxHeaders headers.  *)

MaxHeaders == 3

\* Headers as bank exports write them; each belongs to one column kind at
\* most.
HeaderPool ==
    { Text(<<"date">>, TRUE), Text(<<"trans", " ", "date">>, TRUE),
      Text(<<"description">>, TRUE), Text(<<"payee">>, FALSE),
      Text(<<"payee", " ", "name">>, TRUE), Text(<<"memo">>, TRUE),
      Text(<<"amount">>, TRUE), Text(<<" ", "amt">>, FALSE),
      Text(<<"debit">>, TRUE), Text(<<"credit">>, TRUE),
      Text(<<"category">>, TRUE), Text(<<"check", " ", "#">>, TRUE),
      Text(<<"balance">>, TRUE) }

\* Date,Description,Amount and Trans Date,Memo,Debit,Credit
ExampleHeaders ==
    { <<Text(<<"date">>, TRUE), Text(<<"description">>, TRUE),
        Text(<<"amount">>, TRUE)>>,
      <<Text(<<"trans", " ", "date">>, TRUE), Text(<<"memo">>, TRUE),
        Text(<<"debit">>, TRUE), Text(<<"credit">>, TRUE)>> }

HeaderRows ==
    ExampleHeaders \cup
    UNION { [1..n -> HeaderPool] : n \in 1..MaxHeaders }

ColumnsInit == StoreInit

\* detectColumns is a function of its argument: one call from the start.
DetectColumnsCall ==
    /\ parseOut.op = ""
    /\ \E headers \in HeaderRows :
        parseOut' = [op |-> "detectColumns", headers |-> headers,
                     map |-> DetectColumns(headers)]
    /\ UNCHANGED <<matchVars, cryptoVars, storeVars, importVars, validateVars,
                   createVars, userVars, updateVars, rateVars, backupVars,
                   initVars, keyVars, getVars,
                   awaitVars>>

ColumnsNext == DetectColumnsCall

SpecColumns == ColumnsInit /\ [][ColumnsNext]_vars

----------------------------------------------------------------------------
(* parseAmount and determineTypeFromAmount. An amount string is a sequence *)
(* of characters.                                                          *)

Digits == {"0", "5"}

\* The characters of the amount strings.
AmountChars == {"$", "-", "(", ")", " ", "\""} \cup Digits

\* str.replace(/[...]/g, '')
RemoveChars(str, chars) == SelectSeq(str, LAMBDA c : c \notin chars)

StartsWith(str, c) == Len(str) > 0 /\ str[1] = c
EndsWith(str, c) == Len(str) > 0 /\ str[Len(str)] = c

\* The digits that parseFloat reads at the start of str, after one sign.
DigitPrefix(str) ==
    LET unsigned == IF StartsWith(str, "-") THEN Tail(str) ELSE str
        stops == { i \in 1..Len(unsigned) : unsigned[i] \notin Digits }
        n == IF stops = {} THEN Len(unsigned)
             ELSE (CHOOSE i \in stops : \A j \in stops : i <= j) - 1
    IN SubSeq(unsigned, 1, n)

RECURSIVE DigitsValue(_)
DigitsValue(ds) ==
    IF ds = <<>> THEN 0
    ELSE 10 * DigitsValue(SubSeq(ds, 1, Len(ds) - 1))
         + (IF ds[Len(ds)] = "5" THEN 5 ELSE 0)

\* parseAmount(amountStr): null, or Math.abs of the number read; isNegative
\* is its local variable.
ParseAmount(amountStr) ==
    LET stripped == RemoveChars(amountStr, {"$", ",", "\"", "'", " "})
        parens == StartsWith(stripped, "(") /\ EndsWith(stripped, ")")
        inner == IF parens THEN SubSeq(stripped, 2, Len(stripped) - 1)
                 ELSE stripped
        minus == StartsWith(inner, "-")
        cleaned == IF minus THEN Tail(inner) ELSE inner
        ds == DigitPrefix(cleaned)
    IN IF amountStr = <<>> \/ ds = <<>>
       THEN [isNull |-> TRUE, value |-> 0, isNegative |-> FALSE]
       ELSE [isNull |-> FALSE, value |-> DigitsValue(ds),
             isNegative |-> parens \/ minus]

\* determineTypeFromAmount(amountStr)
DetermineTypeFromAmount(amountStr) ==
    LET cleaned == RemoveChars(amountStr, {"\"", "'", " "})
    IN IF amountStr = <<>> THEN "debit"
       ELSE IF StartsWith(cleaned, "-")
               \/ (StartsWith(cleaned, "(") /\ EndsWith(cleaned, ")"))
            THEN "debit"
            ELSE "credit"

----------------------------------------------------------------------------
(* SpecAmount: the two functions on every amount string of up to           *)
(* MaxAmountLen characters.                                                *)

MaxAmountLen == 4

AmountStrings == UNION { [1..n -> AmountChars] : n \in 0..MaxAmountLen }

AmountInit == StoreInit

\* parseCSV: parsedAmount and type of one row; the row is emitted when the
\* amount is neither null nor 0.
ParseAmountCall ==
    /\ parseOut.op = ""
    /\ \E amountStr \in AmountStrings :
        LET parsedAmount == ParseAmount(amountStr)
        IN parseOut' = [op |-> "parseAmount", amountStr |-> amountStr,
                        parsedAmount |-> parsedAmount,
                        emitted |-> ~parsedAmount.isNull
                                    /\ parsedAmount.value # 0,
                        type |-> DetermineTypeFromAmount(amountStr)]
    /\ UNCHANGED <<matchVars, cryptoVars, storeVars, importVars, validateVars,
                   createVars, userVars, updateVars, rateVars, backupVars,
                   initVars, keyVars, getVars,
                   awaitVars>>

AmountNext == ParseAmountCall

SpecAmount == AmountInit /\ [][AmountNext]_vars

----------------------------------------------------------------------------
(* parseCSV. A line is the sequence of fields that parseCSVLine splits it  *)
(* into; a line without a comma is one field.                              *)

\* The number of lines searched for the header.
HeaderScanLines == 10

\* The phrases of statement summary rows.
SummaryPhrases ==
    {"beginning balance", "ending balance", "total credits", "total debits"}

\* parseDate(dateStr) by format: YYYY-MM-DD is kept, M/D/YYYY is rewritten,
\* other text goes through new Date(); null is "".
ParseDate(dateStr) ==
    LET w == TrimText(dateStr).words
    IN IF Len(w) # 1 THEN ""
       ELSE CASE w[1] = "2024-01-05" -> "2024-01-05"
              [] w[1] = "1/7/2024" -> "2024-01-07"
              [] w[1] = "Jan 9, 2024" -> "2024-01-09"
              [] OTHER -> ""

\* line.trim() is empty
IsBlankLine(line) == Len(line) = 1 /\ TrimText(line[1]).words = <<>>

\* fields[index] || fields[fallback] as a sequence of at most one field:
\* undefined and "" are falsy, undefined is the empty sequence.
FieldOr(fields, index, fallback) ==
    IF index >= 0 /\ index < Len(fields) /\ fields[index + 1].words # <<>>
    THEN <<fields[index + 1]>>
    ELSE IF fallback < Len(fields) THEN <<fields[fallback + 1]>>
         ELSE <<>>

\* The index of the header line among the lines, counted from 0, or -1.
FindHeaderIndex(lines) ==
    FirstOf({ i - 1 : i \in { k \in 1..Min(HeaderScanLines, Len(lines)) :
        \E f \in 1..Len(lines[k]) :
            LET field == TrimText(ToLowerCase(lines[k][f]))
            IN IsWords(field, <<"date">>) \/ IncludesWord(field, "date") } })

DefaultHeaders ==
    <<Text(<<"date">>, FALSE), Text(<<"description">>, FALSE),
      Text(<<"amount">>, FALSE)>>

\* column >= 0 && fields[column] ? fields[column].trim() : null
OptionalField(fields, column) ==
    IF column >= 0 /\ column < Len(fields) /\ fields[column + 1].words # <<>>
    THEN [isNull |-> FALSE, s |-> TrimText(fields[column + 1])]
    ELSE [isNull |-> TRUE, s |-> Text(<<>>, FALSE)]

\* The body of the loop over dataLines for one line: the transaction pushed,
\* or nothing.
ParseDataLine(fields, columnMap) ==
    LET dateStr == FieldOr(fields, columnMap.date, 0)
        descriptionStr == FieldOr(fields, columnMap.description, 1)
        amountStr == FieldOr(fields, columnMap.amount, 2)
    IN IF Len(fields) < 2 THEN <<>>
       ELSE IF \/ dateStr = <<>> \/ dateStr[1].words = <<>>
               \/ amountStr = <<>> \/ amountStr[1].words = <<>>
               \/ \E p \in SummaryPhrases :
                    IncludesWord(ToLowerCase(descriptionStr[1]), p)
            THEN <<>>
            ELSE LET parsedDate == ParseDate(dateStr[1])
                     parsedAmount == ParseAmount(amountStr[1].words)
                 IN IF \/ parsedDate = "" \/ parsedAmount.isNull
                       \/ parsedAmount.value = 0
                    THEN <<>>
                    ELSE << [date |-> parsedDate,
                             description |-> TrimText(descriptionStr[1]),
                             payee |-> TrimText(descriptionStr[1]),
                             amount |-> parsedAmount.value,
                             type |-> DetermineTypeFromAmount(
                                          amountStr[1].words),
                             category |->
                                 OptionalField(fields, columnMap.category),
                             checkNumber |->
                                 OptionalField(fields, columnMap.checkNumber),
                             isReconciled |-> FALSE,
                             selected |-> TRUE] >>

RECURSIVE ParseDataLines(_, _)
ParseDataLines(dataLines, columnMap) ==
    IF dataLines = <<>> THEN <<>>
    ELSE ParseDataLine(Head(dataLines), columnMap)
         \o ParseDataLines(Tail(dataLines), columnMap)

\* parseCSV(csvContent): found is the header index the search gives,
\* dataStart the index of the first line read as data.
ParseCSV(csvContent) ==
    LET lines == SelectSeq(csvContent, LAMBDA line : ~IsBlankLine(line))
        found == FindHeaderIndex(lines)
        headerIndex == IF found = 0 - 1 THEN 0 ELSE found
        headers == IF found = 0 - 1 THEN DefaultHeaders
                   ELSE [f \in 1..Len(lines[found + 1]) |->
                            TrimText(ToLowerCase(lines[found + 1][f]))]
        columnMap == DetectColumns(headers)
        dataStart == headerIndex + 1
        dataLines == SubSeq(lines, dataStart + 1, Len(lines))
    IN [found |-> found, columnMap |-> columnMap, dataStart |-> dataStart,
        transactions |-> ParseDataLines(dataLines, columnMap)]

----------------------------------------------------------------------------
(* SpecCsv: parseCSV on files of up to MaxBodyLines lines after a preamble *)
(* of account lines.                                                       *)

MaxBodyLines == 3

Word(w) == Text(<<w>>, FALSE)
Chars(cs) == Text(cs, FALSE)

\* A line of the account summary that banks write above the header.
AccountLine == <<Text(<<"account">>, TRUE), Word("1234")>>

LinePool ==
    { <<Text(<<"date">>, TRUE), Text(<<"description">>, TRUE),
        Text(<<"amount">>, TRUE)>>,
      <<Text(<<"amount">>, TRUE), Text(<<"posted", " ", "date">>, TRUE),
        Text(<<"memo">>, TRUE)>>,
      <<Word("2024-01-05"), Text(<<"coffee">>, TRUE), Chars(<<"5">>)>>,
      <<Chars(<<"-", "5", "0">>), Word("1/7/2024"), Text(<<"rent">>, TRUE)>>,
      <<Word("2024-01-05"), Text(<<"beginning balance">>, TRUE),
        Chars(<<"5">>)>>,
      <<Word("Jan 9, 2024"), Text(<<"refund">>, FALSE), Chars(<<"0">>)>>,
      <<Word("tomorrow"), Text(<<"coffee">>, TRUE), Chars(<<"5">>)>>,
      <<Word("2024-01-05"), Text(<<"coffee">>, TRUE), Chars(<<"x">>)>>,
      <<Word("")>>,
      <<Word("2024-01-05"), Text(<<" ", "fee">>, FALSE)>> }

RECURSIVE Repeat(_, _)
Repeat(line, n) == IF n = 0 THEN <<>> ELSE <<line>> \o Repeat(line, n - 1)

\* No preamble, one that leaves the header within the lines searched, and
\* one that does not.
Preambles == {0, HeaderScanLines - 1, HeaderScanLines}

CsvContents ==
    { Repeat(AccountLine, k) \o body :
        k \in Preambles,
        body \in UNION { [1..n -> LinePool] : n \in 0..MaxBodyLines } }

CsvInit == StoreInit

ParseCSVCall ==
    /\ parseOut.op = ""
    /\ \E csvContent \in CsvContents :
        LET r == ParseCSV(csvContent)
        IN parseOut' = [op |-> "parseCSV", csvContent |-> csvContent,
                        found |-> r.found, columnMap |-> r.columnMap,
                        dataStart |-> r.dataStart,
                        transactions |-> r.transactions]
    /\ UNCHANGED <<matchVars, cryptoVars, storeVars, importVars, validateVars,
                   createVars, userVars, updateVars, rateVars, backupVars,
                   initVars, keyVars, getVars,
                   awaitVars>>

CsvNext == ParseCSVCall

SpecCsv == CsvInit /\ [][CsvNext]_vars

----------------------------------------------------------------------------
(* The balance of the renderer: calculateBalance and the balance column of *)
(* the transaction table.                                                  *)

\* const itemsPerPage = 20
ItemsPerPage == 20

\* The amount of a transaction as the balance takes it.
SignedAmount(t) == IF t.type = "credit" THEN t.amount ELSE 0 - t.amount

\* The loop of calculateBalance, and of renderPaginatedTransactions, over a
\* list.
RECURSIVE SumSigned(_)
SumSigned(list) ==
    IF list = <<>> THEN 0
    ELSE SumSigned(SubSeq(list, 1, Len(list) - 1)) + SignedAmount(list[Len(list)])

\* calculateBalance(): appData.balance
CalculateBalance(transactions) == SumSigned(transactions)

\* filteredTransactions.sort((a, b) => new Date(b.date) - new Date(a.date)):
\* a stable sort, the later date first.
RECURSIVE SortByDateDescending(_)
SortByDateDescending(list) ==
    IF list = <<>> THEN <<>>
    ELSE LET sorted == SortByDateDescending(SubSeq(list, 1, Len(list) - 1))
             t == list[Len(list)]
             before == SelectSeq(sorted, LAMBDA s : s.date >= t.date)
             after == SelectSeq(sorted, LAMBDA s : s.date < t.date)
         IN before \o <<t>> \o after

\* filterTransactions() with an empty search box: the date filters, then
\* the sort; 0 is an empty date input.
FilterTransactions(transactions, startDate, endDate) ==
    SortByDateDescending(
        SelectSeq(transactions,
                  LAMBDA t : /\ (startDate = 0 \/ t.date >= startDate)
                             /\ (endDate = 0 \/ t.date <= endDate)))

\* renderPaginatedTransactions() on page currentPage: the date and the
\* balance cell of every row of the page.
RenderPaginatedTransactions(filteredTransactions, currentPage) ==
    LET startIndex == (currentPage - 1) * ItemsPerPage
        endIndex == Min(startIndex + ItemsPerPage, Len(filteredTransactions))
    IN [i \in 1..Max(endIndex - startIndex, 0) |->
           [date |-> filteredTransactions[startIndex + i].date,
            balance |-> SumSigned(SubSeq(filteredTransactions, 1,
                                         startIndex + i))]]

----------------------------------------------------------------------------
(* SpecBalance: renderUI on lists of up to MaxListed transactions.         *)

MaxListed == 3
MaxListedDate == 2
MaxListedAmount == 2

ListedTransactions ==
    [date : 1..MaxListedDate, type : {"credit", "debit"},
     amount : 1..MaxListedAmount]

BalanceInit == StoreInit

\* renderUI(): calculateBalance(), then renderTransactions(), which filters
\* and shows page 1.
RenderUI ==
    /\ parseOut.op = ""
    /\ \E n \in 0..MaxListed :
        \E transactions \in [1..n -> ListedTransactions],
           startDate \in {0, MaxListedDate} :
            LET filtered == FilterTransactions(transactions, startDate, 0)
            IN parseOut' = [op |-> "renderUI",
                            transactions |-> transactions,
                            startDate |-> startDate,
                            balance |-> CalculateBalance(transactions),
                            rows |-> RenderPaginatedTransactions(filtered, 1)]
    /\ UNCHANGED <<matchVars, cryptoVars, storeVars, importVars, validateVars,
                   createVars, userVars, updateVars, rateVars, backupVars,
                   initVars, keyVars, getVars,
                   awaitVars>>

BalanceNext == RenderUI

SpecBalance == BalanceInit /\ [][BalanceNext]_vars

----------------------------------------------------------------------------
(* SpecAwait: import-data and db:change-path close db and then await       *)
(* initializeDatabase, whose getKey and retry delays give the event loop   *)
(* to other handlers before a new handle is assigned.                      *)

NoKeyResults == [i \in 1..MaxRetries + 1 |-> "nokey"]

AwaitInit == StoreInit

\* import-data up to await initializeDatabase(): the validations, the
\* decryption, db.close() and the write of the database file.
ImportBegins ==
    /\ reinit.op = ""
    /\ \E importPath \in BackupPaths, password \in Passwords :
        LET r == ImportData(dbHandle, table, dbLarge, files, importPath,
                            password, NoKeyResults)
        IN /\ dbHandle' = r.handle
           /\ table' = r.table
           /\ dbLarge' = r.large
           /\ reinit' = IF r.replaced
                        THEN [op |-> "import-data", retryCount |-> 0]
                        ELSE reinit
    /\ UNCHANGED <<matchVars, cryptoVars, importVars, validateVars, createVars,
                   userVars, updateVars, rateVars, files, lastExport,
                   backupOut, initVars, keyVars, getVars, parseVars,
                   handlerOut>>

\* db:change-path up to await initializeDatabase(): the database file is
\* copied to the new path, then db.close().
ChangePathBegins ==
    /\ reinit.op = ""
    /\ dbHandle # "none"
    /\ \E validPath \in BOOLEAN :
        IF validPath
        THEN /\ dbHandle' = "closed"
             /\ reinit' = [op |-> "db:change-path", retryCount |-> 0]
        ELSE UNCHANGED <<dbHandle, reinit>>
    /\ UNCHANGED <<matchVars, cryptoVars, storeVars, importVars, validateVars,
                   createVars, userVars, updateVars, rateVars, dbLarge, files,
                   lastExport, backupOut, initVars, keyVars, getVars,
                   parseVars, handlerOut>>

\* One attempt of the awaited initializeDatabase: getKey resolves, then
\* db = new EncryptedDatabase(...), or the retry after the delay, or false.
InitializeDatabaseAttempt ==
    /\ reinit.op # ""
    /\ \E keyResult \in KeyResults :
        IF keyResult = "key"
        THEN /\ dbHandle' = "open"
             /\ reinit' = [op |-> "", retryCount |-> 0]
        ELSE IF reinit.retryCount < MaxRetries
             THEN /\ reinit' = [reinit EXCEPT !.retryCount = @ + 1]
                  /\ UNCHANGED dbHandle
             ELSE /\ reinit' = [op |-> "", retryCount |-> 0]
                  /\ UNCHANGED dbHandle
    /\ UNCHANGED <<matchVars, cryptoVars, storeVars, importVars, validateVars,
                   createVars, userVars, updateVars, rateVars, dbLarge, files,
                   lastExport, backupOut, initVars, keyVars, getVars,
                   parseVars, handlerOut>>

HandlerOut(handler) ==
    [n |-> 1 - handlerOut.n, handler |-> handler, handle |-> dbHandle,
     during |-> reinit.op, success |-> dbHandle = "open"]

\* load-data with db not null: a closed handle throws in getUserByEmail and
\* the handler answers with the error.
LoadDataRuns ==
    /\ dbHandle # "none"
    /\ handlerOut' = HandlerOut("load-data")
    /\ IF dbHandle = "open"
       THEN \E email \in {NoEmail, EmailA} :
            \E user \in LoadDataUsers(users, email) :
                categories' = LoadData(users, categories, user)
       ELSE UNCHANGED categories
    /\ UNCHANGED <<matchVars, cryptoVars, storeVars, importVars, validateVars,
                   createVars, users, userOut, updateVars, rateVars,
                   backupVars, initVars, keyVars, getVars, parseVars, reinit>>

\* delete-transaction with db not null
DeleteTransactionRuns ==
    /\ dbHandle # "none"
    /\ handlerOut' = HandlerOut("delete-transaction")
    /\ IF dbHandle = "open"
       THEN \E id \in Uuids : table' = DeleteTransaction(table, id).table
       ELSE UNCHANGED table
    /\ UNCHANGED <<matchVars, cryptoVars, importVars, validateVars, createVars,
                   userVars, updateVars, rateVars, backupVars, initVars,
                   keyVars, getVars, parseVars, reinit>>

AwaitNext ==
    \/ ExportDataCall
    \/ ImportBegins
    \/ ChangePathBegins
    \/ InitializeDatabaseAttempt
    \/ LoadDataRuns
    \/ DeleteTransactionRuns

SpecAwait == AwaitInit /\ [][AwaitNext]_vars

----------------------------------------------------------------------------
(* SpecUpdate: direct calls of updateTransaction and updateUser on a store  *)
(* filled by createTransaction and createUser.                             *)

\* The updates argument of a direct updateTransaction call.
TransactionUpdates ==
    { BaseUpdates,
      [BaseUpdates EXCEPT !.set = {"amount"}, !.amount = AmtNeg(Amt(5, 0))],
      [BaseUpdates EXCEPT !.set = {"amount", "isReconciled"},
                          !.amount = AmtNeg(Amt(5, 0)), !.isReconciled = TRUE],
      [BaseUpdates EXCEPT !.set = {"description"}, !.description = JsNull] }

\* The updates argument of a direct updateUser call.
UserUpdates ==
    { BaseUserUpdates,
      [BaseUserUpdates EXCEPT !.set = {"firstName"}],
      [BaseUserUpdates EXCEPT !.set = {"email"}],
      [BaseUserUpdates EXCEPT !.set = {"email", "firstName"}, !.email = EmailB],
      [BaseUserUpdates EXCEPT !.set = {"email"}, !.email = JsNull] }

UserIdArgs == 1..(MaxUsers + 1)

UpdateInit == StoreInit

\* createTransaction(BaseTransaction) where randomUUID returns the next
\* uuid that is not stored yet.
UpdateSeedTransaction ==
    /\ Len(table) < NumUuids
    /\ table' = CreateTransaction(table,
                                  [k \in 1..CreateAttempts |-> Len(table) + 1],
                                  BaseTransaction).table
    /\ UNCHANGED <<matchVars, cryptoVars, importVars, validateVars, restVars>>

\* createUser(email, "a", null, null)
CreateUserCall ==
    /\ Len(users) < MaxUsers
    /\ \E email \in Emails :
        users' = CreateUser(users, email, Str(<<A>>), JsNull, JsNull).users
    /\ UNCHANGED <<matchVars, cryptoVars, storeVars, importVars, validateVars,
                   createVars, categories, userOut, updateVars,
                   rateVars,
                   backupVars,
                   initVars,
                   keyVars,
                   getVars,
                   parseVars,
                   awaitVars>>

\* updateTransaction(id, u)
UpdateTransactionCall ==
    /\ \E id \in Uuids \cup {NoId}, u \in TransactionUpdates :
        LET r == UpdateTransaction(table, id, u)
        IN /\ table' = r.table
           /\ updateOut' = [called |-> TRUE, kind |-> "transaction", id |-> id,
                            u |-> u, threw |-> r.threw, changes |-> r.changes]
    /\ UNCHANGED <<matchVars, cryptoVars, importVars, validateVars, createVars,
                   userVars,
                   rateVars,
                   backupVars,
                   initVars,
                   keyVars,
                   getVars,
                   parseVars,
                   awaitVars>>

\* updateUser(id, u)
UpdateUserCall ==
    /\ \E id \in UserIdArgs, u \in UserUpdates :
        LET r == UpdateUser(users, id, u)
        IN /\ users' = r.users
           /\ updateOut' = [called |-> TRUE, kind |-> "user", id |-> id,
                            u |-> u, threw |-> r.threw, changes |-> r.changes]
    /\ UNCHANGED <<matchVars, cryptoVars, storeVars, importVars, validateVars,
                   createVars, categories, userOut,
                   rateVars,
                   backupVars,
                   initVars,
                   keyVars,
                   getVars,
                   parseVars,
                   awaitVars>>

UpdateNext ==
    \/ UpdateSeedTransaction
    \/ CreateUserCall
    \/ UpdateTransactionCall
    \/ UpdateUserCall

SpecUpdate == UpdateInit /\ [][UpdateNext]_vars

----------------------------------------------------------------------------
(* Claims about the matcher.                                               *)

\* The score the specification gives a stored transaction for a candidate.
ClaimedScore(tx, row) ==
    LET bothDates == row.date # NoDate /\ tx.date # NoDate
        days == IF row.date >= tx.date THEN row.date - tx.date
                ELSE tx.date - row.date
    IN (IF tx.type = row.type THEN 10 ELSE 0)
       + (IF bothDates THEN (IF 20 - days > 0 THEN 20 - days ELSE 0) ELSE 0)

MatchedIds == { matches[i].transaction.id : i \in 1..Len(matches) }

\* Eligibility as the specification states it: the amounts differ by at most
\* 0.01 and, when both dates are present, the dates by at most 10 days.
ClaimedEligible(tx, row) ==
    /\ ~MagGt(AmtDistance(tx.amount, row.amount), Amt(0, 1))
    /\ (row.date # NoDate /\ tx.date # NoDate)
        => (IF row.date >= tx.date THEN row.date - tx.date
            ELSE tx.date - row.date) <= 10

\* C1: a stored transaction is returned for a candidate if and only if its
\* amount differs from the candidate's by at most 0.01 and, when both dates are
\* present, its date is at most 10 days away, reconciled or not (a list of more
\* than 10 eligible transactions being cut to 10): no returned match violates
\* either bound, and every transaction within both bounds is returned.
C1_EligibleIffWithinBounds ==
    csvRow # NoRow =>
        /\ \A i \in 1..Len(matches) :
              ClaimedEligible(matches[i].transaction, csvRow)
        /\ \A k \in 1..Len(appData) :
              (ClaimedEligible(appData[k], csvRow) /\ Len(matches) < 10)
              => appData[k].id \in MatchedIds

\* C2: the score of every returned match is (10 if the stored type equals the
\* candidate's type, else 0) plus max(0, 20 - daysDifference) when both dates
\* are present, with no other term; a returned match that has both dates
\* scores between 10 and 30.
C2_ScoreIsAdditive ==
    \A i \in 1..Len(matches) :
        LET tx == matches[i].transaction
        IN /\ matches[i].score = ClaimedScore(tx, csvRow)
           /\ (csvRow.date # NoDate /\ tx.date # NoDate)
                => (matches[i].score >= 10 /\ matches[i].score <= 30)

\* A candidate matched against an other-type transaction 10 days away (10) and
\* a same-type one without a date (10).
C2_Witness ==
    /\ csvRow # NoRow
    /\ \E j, k \in 1..Len(matches) :
        /\ matches[j].score = 10 /\ matches[j].transaction.type # csvRow.type
        /\ matches[j].transaction.date = 21
        /\ matches[k].transaction.date = NoDate
        /\ matches[k].transaction.type = csvRow.type
        /\ matches[k].score = 10

\* C3: the returned list is ordered by non-increasing score, has at most 10
\* entries, and no eligible stored transaction left out scores strictly higher
\* than a returned one; in the example of the specification (stored credit of
\* 50.00 on the 10th, stored debit of 50.00 on the 20th, candidate credit of
\* 50.00 on the 11th) the first stored transaction is ranked above the second.
C3_RankedTopTen ==
    /\ Len(matches) <= 10
    /\ \A i \in 1..(Len(matches) - 1) : matches[i].score >= matches[i + 1].score
    /\ csvRow # NoRow =>
        \A k \in 1..Len(appData) :
            (IsEligible(appData[k], csvRow) /\ appData[k].id \notin MatchedIds)
            => /\ Len(matches) = 10
               /\ \A i \in 1..Len(matches) :
                    matches[i].score >= ClaimedScore(appData[k], csvRow)
    /\ ( /\ Len(appData) = 2
         /\ appData[1].amount = Amt(50, 0) /\ appData[1].date = 10
         /\ appData[1].type = "credit"
         /\ appData[2].amount = Amt(50, 0) /\ appData[2].date = 20
         /\ appData[2].type = "debit"
         /\ csvRow # NoRow /\ csvRow.type = "credit" )
        => ( /\ Len(matches) = 2
             /\ matches[1].transaction.id = appData[1].id
             /\ matches[2].transaction.id = appData[2].id
             /\ matches[1].score > matches[2].score )

\* More than 10 eligible transactions of two different scores, stored in an
\* order that is not the ranking: the list is cut and a lower score is left out.
C3_Witness ==
    /\ csvRow # NoRow
    /\ Len(appData) > 10
    /\ Len(matches) = 10
    /\ \A k \in 1..Len(appData) : IsEligible(appData[k], csvRow)
    /\ matches[1].score > matches[10].score
    /\ \E k \in 2..Len(appData) :
        ClaimedScore(appData[k], csvRow) > ClaimedScore(appData[1], csvRow)
    /\ \E k \in 1..Len(appData) : appData[k].id \notin MatchedIds

\* The example of the specification has been matched.
C3_WitnessExample ==
    /\ Len(appData) = 2 /\ csvRow # NoRow /\ csvRow.type = "credit"
    /\ appData[1].amount = Amt(50, 0) /\ appData[1].date = 10
    /\ appData[1].type = "credit"
    /\ appData[2].amount = Amt(50, 0) /\ appData[2].date = 20
    /\ appData[2].type = "debit"
    /\ Len(matches) = 2

----------------------------------------------------------------------------
(* Claims about encrypt and decrypt.                                       *)

\* No surrogate code unit of s is unpaired.
WellFormedUtf16(s) ==
    \A i \in 1..Len(s) :
        /\ s[i] = HighSurrogate => (i < Len(s) /\ s[i + 1] = LowSurrogate)
        /\ s[i] = LowSurrogate => (i > 1 /\ s[i - 1] = HighSurrogate)

RoundTrips(e) ==
    Decrypt(dbKey, e.out) = [threw |-> FALSE, value |-> e.text]

OutputsDiffer ==
    \A i, j \in 1..Len(encLog) :
        (i # j /\ Truthy(encLog[i].text)) => encLog[i].out # encLog[j].out

\* C8, as stated: for every non-empty string s and every store key,
\* decrypt(encrypt(s)) = s, and two calls of encrypt on the same s give two
\* different stored values that both decrypt to s.
C8_RoundTripEveryString ==
    /\ \A i \in 1..Len(encLog) : Truthy(encLog[i].text) => RoundTrips(encLog[i])
    /\ OutputsDiffer

\* C8, as amended: the same for every non-empty string without an unpaired
\* surrogate; for every non-empty string, two calls of encrypt give different
\* stored values.
C8_RoundTripWellFormed ==
    /\ \A i \in 1..Len(encLog) :
        (Truthy(encLog[i].text) /\ WellFormedUtf16(encLog[i].text.s))
        => RoundTrips(encLog[i])
    /\ OutputsDiffer

\* The same string, holding colons, encrypted twice: two different values.
C8_Witness ==
    /\ Len(encLog) = 2
    /\ encLog[1].text = Str(<<A, Colon, A, Colon, A>>)
    /\ encLog[2].text = encLog[1].text
    /\ encLog[1].out # encLog[2].out
    /\ RoundTrips(encLog[1]) /\ RoundTrips(encLog[2])

IsHexTriple(s) ==
    LET parts == SplitColon(s)
    IN /\ Len(parts) = 3
       /\ \A i \in 1..3 : Len(parts[i]) = 1
       /\ parts[1][1].k = "iv" /\ parts[2][1].k = "tag" /\ parts[3][1].k = "ct"

\* C9: decrypt never throws; decrypt(null) is null; a stored (non-empty) value
\* that is not a well-formed iv:authTag:ciphertext triple is returned
\* unchanged; a three-component value that fails authentication yields null.
C9_DecryptTolerant ==
    /\ ~decOut.threw
    /\ decIn.isNull => decOut.value = JsNull
    /\ (Truthy(decIn) /\ ~IsHexTriple(decIn.s)) => decOut.value = decIn
    /\ (Truthy(decIn) /\ IsHexTriple(decIn.s)
        /\ ~Authenticates(dbKey, SplitColon(decIn.s))) => decOut.value = JsNull

----------------------------------------------------------------------------
(* Claims about the store and its validation.                              *)

\* C5: after any sequence of save-data, update-transaction, delete-transaction
\* and db:mark-reconciled requests, every stored transaction has an amount that
\* is non-negative and at most 999,999,999.99, and a type in {debit, credit}.
C5_StoredAmountAndTypeValid ==
    \A i \in 1..Len(table) :
        /\ ~AmtIsNegative(table[i].amount)
        /\ ~MagGt(table[i].amount, Amt(999999999, 99))
        /\ table[i].type \in {"debit", "credit"}

\* C6: with otherwise valid fields, validateTransactionData throws exactly
\* when the amount is negative or greater than 999,999,999.99.
C6_AmountRangeEnforced ==
    (valIn # NoRow /\ valIn.date # NoDate /\ Truthy(valIn.description)
     /\ valIn.type \in {"debit", "credit"})
    => (valOut.threw <=> (AmtIsNegative(valIn.amount)
                          \/ MagGt(valIn.amount, Amt(999999999, 99))))

\* C7: the description, and the category when it is not null, of every row of
\* the transactions table is an iv:authTag:ciphertext string, and what a read
\* through load-data returns for them is plaintext.
C7_SensitiveFieldsEncryptedAtRest ==
    /\ \A i \in 1..Len(table) :
        /\ IsHexTriple(table[i].description.s)
        /\ ~table[i].category.isNull => IsHexTriple(table[i].category.s)
    /\ \A i \in 1..Len(LoadTransactions(table)) :
        ~IsHexTriple(LoadTransactions(table)[i].description.s)

IdsOf(tbl) == [i \in 1..Len(tbl) |-> tbl[i].id]

\* The ids of the table after a step: the same, one more at the end that was
\* not stored before, or one removed.
IdsStep ==
    \/ IdsOf(table') = IdsOf(table)
    \/ \E id \in Uuids \ StoredIds(table) : IdsOf(table') = Append(IdsOf(table), id)
    \/ \E k \in 1..Len(table) :
        IdsOf(table') = SubSeq(IdsOf(table), 1, k - 1)
                        \o SubSeq(IdsOf(table), k + 1, Len(table))

----------------------------------------------------------------------------
(* Claims about the CSV import.                                            *)

\* What the specification promises of one run of confirmCsvImport.
ImportOutcome ==
    LET matched == { csvPreview[i].checked
                      : i \in SelectedMatched(csvTransactions, csvPreview) }
        created == Cardinality(SelectedNew(csvTransactions, csvPreview))
    IN /\ \A id \in matched :
            \E k \in 1..Len(table') : table'[k].id = id /\ table'[k].isReconciled
       /\ Len(table') = Len(table) + created
       /\ \A k \in (Len(table) + 1)..Len(table') : table'[k].isReconciled
       /\ \A k \in 1..Len(table) :
            IF table[k].id \in matched
            THEN table'[k] = [table[k] EXCEPT !.isReconciled = TRUE]
            ELSE table'[k] = table[k]

\* C4: confirmCsvImport marks the stored transaction of every accepted match
\* reconciled and creates nothing for that candidate, creates exactly one new
\* stored transaction with isReconciled = true for every selected candidate
\* whose matches were all rejected, and changes nothing for the others.
C4_ImportMatchesOrCreates == [][ConfirmCsvImport => ImportOutcome]_vars

----------------------------------------------------------------------------
(* Claims about createTransaction's retry.                                 *)

\* The number of leading elements of uuids that are stored ids.
RECURSIVE LeadingCollisions(_, _)
LeadingCollisions(uuids, ids) ==
    IF uuids = <<>> \/ Head(uuids) \notin ids THEN 0
    ELSE 1 + LeadingCollisions(Tail(uuids), ids)

\* What the specification promises of one call of createTransaction.
CreateOutcome ==
    LET out == createOut'
        k == LeadingCollisions(out.uuids, StoredIds(table))
    IN /\ out.attempts >= 1 /\ out.attempts <= 3
       /\ IF out.data.description.isNull
          THEN out.threw /\ out.attempts = 1 /\ table' = table
          ELSE IF k < 3
               THEN /\ ~out.threw
                    /\ out.attempts = k + 1
                    /\ out.id = out.uuids[k + 1]
                    /\ out.id \notin StoredIds(table)
                    /\ Len(table') = Len(table) + 1
                    /\ SubSeq(table', 1, Len(table)) = table
                    /\ table'[Len(table')].id = out.id
               ELSE out.threw /\ out.attempts = 3 /\ table' = table

\* C11: createTransaction makes at most 3 insert attempts: after k < 3
\* primary-key collisions and a success it returns the new id having inserted
\* exactly one row in k + 1 attempts; after 3 collisions it throws and inserts
\* nothing; any other error is thrown at the first attempt.
C11_BoundedCollisionRetry ==
    [][(createOut' # createOut \/ Len(table') > Len(table)) => CreateOutcome]_vars

\* Two collisions, then a success at the third attempt.
C11_Witness ==
    /\ createOut.called /\ ~createOut.threw
    /\ createOut.attempts = 3
    /\ createOut.uuids[1] # createOut.id /\ createOut.uuids[2] # createOut.id
    /\ createOut.id \in StoredIds(table)

----------------------------------------------------------------------------
(* Claims about partial updates.                                           *)

\* rows' is rows with the fields in set of the rows with that id replaced by
\* the values of u, every other field and every other row as before.
OnlySuppliedFieldsChanged(rows, rowsAfter, id, u, fields) ==
    /\ Len(rowsAfter) = Len(rows)
    /\ \A i \in 1..Len(rows) :
        IF rows[i].id # id THEN rowsAfter[i] = rows[i]
        ELSE /\ DOMAIN rowsAfter[i] = DOMAIN rows[i]
             /\ \A f \in DOMAIN rows[i] :
                 rowsAfter[i][f] =
                    IF f \in u.set \cap fields THEN u[f] ELSE rows[i][f]

RowsWithId(rows, id) == Cardinality({ i \in 1..Len(rows) : rows[i].id = id })

\* The call recorded in updateOut' follows the claim as it is written: it
\* never raises for an id that matches no row, and otherwise changes exactly
\* the supplied fields.
UpdateAsClaimed ==
    LET o == updateOut'
    IN IF o.kind = "transaction"
       THEN /\ users' = users
            /\ ~o.threw
            /\ o.changes = (IF o.u.set = {} THEN 0 ELSE RowsWithId(table, o.id))
            /\ OnlySuppliedFieldsChanged(table, table', o.id, o.u,
                                         UpdatableFields)
       ELSE /\ table' = table
            /\ ~o.threw
            /\ OnlySuppliedFieldsChanged(users, users', o.id, o.u, UserFields)

\* The same with the two ways an update raises: updateTransaction with an
\* empty id, and a value the table's constraints refuse.
UpdateAsCoded ==
    LET o == updateOut'
    IN IF o.kind = "transaction"
       THEN /\ users' = users
            /\ o.threw <=>
                 \/ o.id = NoId
                 \/ /\ "description" \in o.u.set /\ o.u.description.isNull
                    /\ o.id \in StoredIds(table)
            /\ IF o.threw \/ o.u.set = {}
               THEN table' = table /\ o.changes = 0
               ELSE /\ o.changes = RowsWithId(table, o.id)
                    /\ OnlySuppliedFieldsChanged(table, table', o.id, o.u,
                                                 UpdatableFields)
            /\ (~o.threw /\ o.id \notin StoredIds(table)) =>
                  (o.changes = 0 /\ table' = table)
       ELSE /\ table' = table
            /\ o.threw <=>
                 /\ "email" \in o.u.set
                 /\ o.id \in UserIds(users)
                 /\ \/ o.u.email.isNull
                    \/ \E i \in 1..Len(users) :
                          users[i].id # o.id /\ users[i].email = o.u.email
            /\ IF o.threw \/ o.u.set = {}
               THEN users' = users /\ o.changes = 0
               ELSE /\ o.changes = RowsWithId(users, o.id)
                    /\ OnlySuppliedFieldsChanged(users, users', o.id, o.u,
                                                 UserFields)

----------------------------------------------------------------------------
(* Claims about users and categories.                                      *)

UniqueEmails ==
    \A i, j \in 1..Len(users) : i # j => users[i].email # users[j].email

\* createUser of an email that is stored fails on the UNIQUE constraint and
\* leaves the table as it was.
CreateDuplicateFails ==
    (userOut'.op = "createUser" /\ userOut'.email \in UserEmails(users))
        => /\ userOut'.threw
           /\ userOut'.code = "SQLITE_CONSTRAINT_UNIQUE"
           /\ users' = users

\* C13: no two users ever share an email, whatever createUser, updateUser
\* (which may change the email) and save-data calls are made, and createUser
\* with a stored email fails with a constraint violation and leaves the users
\* table unchanged.
C13_UniqueEmail == []UniqueEmails /\ [][CreateDuplicateFails]_vars

\* createUser was refused for a duplicate while two users are stored.
C13_Witness ==
    /\ userOut.op = "createUser" /\ userOut.threw
    /\ userOut.code = "SQLITE_CONSTRAINT_UNIQUE"
    /\ Len(users) = 2
    /\ userOut.email \in UserEmails(users)

\* UNIQUE(user_id, name, type) as a property of the rows
NoDuplicateCategory ==
    \A i, j \in 1..Len(categories.rows) :
        (/\ i # j
         /\ categories.rows[i].userId = categories.rows[j].userId
         /\ categories.rows[i].name = categories.rows[j].name)
            => categories.rows[i].type # categories.rows[j].type

\* The rows of a user that are flagged default.
DefaultRows(cats, userId) ==
    { r \in GetCategoriesByUserId(cats, userId) : r.isDefault }

\* The user's default rows are the default set, each (name, type) once.
SeededExactly(cats, userId) ==
    /\ { [type |-> r.type, name |-> r.name] : r \in DefaultRows(cats, userId) }
         = { DefaultCategories[i] : i \in 1..Len(DefaultCategories) }
    /\ Cardinality(DefaultRows(cats, userId)) = Len(DefaultCategories)

\* The user whose categories the call recorded in userOut' seeds, 0 if none.
SeededUser ==
    IF userOut'.op = "initializeDefaultCategories" THEN userOut'.userId
    ELSE IF userOut'.op = "load-data" THEN userOut'.id
    ELSE IF userOut'.op = "save-data" /\ Len(users') > Len(users)
         THEN userOut'.id
         ELSE 0

\* A seeding call for a stored user without categories creates exactly the
\* default set; no call changes the default rows of a user who has
\* categories, and a seeding call for such a user changes nothing at all
\* (save-data apart, which then adds the categories it was sent).
SeedingStep ==
    /\ \A u \in UserIds(users') :
        IF GetCategoriesByUserId(categories, u) # {}
        THEN /\ DefaultRows(categories', u) = DefaultRows(categories, u)
             /\ (SeededUser = u /\ userOut'.op # "save-data")
                    => categories' = categories
        ELSE SeededUser = u =>
                /\ SeededExactly(categories', u)
                /\ \A v \in UserIds(users) \ {u} :
                     GetCategoriesByUserId(categories', v)
                        = GetCategoriesByUserId(categories, v)
                /\ userOut'.op # "save-data" =>
                     GetCategoriesByUserId(categories', u)
                        = DefaultRows(categories', u)

\* C14: seeding the default categories is idempotent.  A call of
\* initializeDefaultCategories for a user without categories creates exactly
\* the default set, each (name, type) once and flagged default; every later
\* call, direct or from save-data or load-data, is a no-op; and no user ever
\* has two categories with the same (name, type).
C14_SeedingIdempotent == []NoDuplicateCategory /\ [][SeedingStep]_vars

\* initializeDefaultCategories was called again for a user who holds the
\* default set and a custom category more.
C14_Witness ==
    /\ userOut.op = "initializeDefaultCategories"
    /\ userOut.userId \in UserIds(users)
    /\ SeededExactly(categories, userOut.userId)
    /\ Cardinality(GetCategoriesByUserId(categories, userOut.userId))
         = Len(DefaultCategories) + 1
----------------------------------------------------------------------------
(* Claims about the rate limiter.                                          *)

\* How many of the accepted checks times[from + 1 ..] lie less than
\* RateWindow before t.
AcceptedWithin(times, from, t) ==
    Cardinality({ i \in (from + 1)..Len(times) : t - times[i] < RateWindow })

\* The step is a call of check.
IsCheck == rateOut'.n # rateOut.n

\* What the claim says of a call of check besides its result: a refused
\* check is not recorded, and the other keys are not touched.
CheckFrame ==
    /\ ~rateOut'.result => attempts' = attempts
    /\ \A k \in RateKeys \ {rateOut'.key} : attempts'[k] = attempts[k]

\* C15 as written: check(key) returns true exactly when fewer than max
\* accepted checks for that key lie within the last window milliseconds; a
\* refused check is not recorded, keys are counted independently, and
\* so at most max checks per key are accepted within an interval shorter
\* than the window.
C15_AcceptedCountEver ==
    [][IsCheck =>
        /\ rateOut'.result <=>
             AcceptedWithin(rateLog[rateOut'.key].times, 0, clock) < RateMax
        /\ CheckFrame]_vars

\* Of the checks accepted since the last reset of the key, no more than
\* RateMax lie in an interval shorter than the window.
WindowBound ==
    \A k \in RateKeys :
        \A i \in (rateLog[k].beforeReset + 1)..Len(rateLog[k].times) :
            Cardinality({ j \in i..Len(rateLog[k].times) :
                            rateLog[k].times[j] - rateLog[k].times[i]
                                < RateWindow }) <= RateMax

\* C15 (amended): check(key) returns true exactly when fewer than max of the
\* checks accepted for that key since its last reset(key) lie within the last
\* window milliseconds; a refused check is not recorded, keys are counted
\* independently, and between two resets of a key at most max checks are
\* accepted within any interval shorter than the window.
C15_AcceptedCountSinceReset ==
    /\ []WindowBound
    /\ [][IsCheck =>
            /\ rateOut'.result <=>
                 AcceptedWithin(rateLog[rateOut'.key].times,
                                rateLog[rateOut'.key].beforeReset, clock)
                    < RateMax
            /\ CheckFrame]_vars

\* A check was accepted again after RateMax accepted checks had aged out of
\* the window, with no reset of the key.
C15_Witness ==
    /\ rateOut.result /\ rateOut.key = "export"
    /\ rateLog["export"].beforeReset = 0
    /\ Len(rateLog["export"].times) = RateMax + 1
    /\ rateLog["export"].times[RateMax + 1] = clock
    /\ rateLog["export"].times[RateMax] = clock - RateWindow
----------------------------------------------------------------------------
(* Claims about backup and restore.                                        *)

\* The step is a call of import-data.
IsImport == backupOut'.n # backupOut.n /\ backupOut'.op = "import-data"

\* Nothing of the live store changed in the step.
StoreUntouched ==
    /\ dbHandle' = dbHandle
    /\ table' = table
    /\ dbLarge' = dbLarge
    /\ files' = files

C17_PreviousStateRecoverable ==
    [][(IsImport /\ backupOut'.replaced /\ ~backupOut'.reopened) =>
          table' = table]_vars

\* The import is of the file the last successful export wrote, with its
\* password.
ImportsLastExport ==
    /\ IsImport
    /\ lastExport.valid
    /\ backupOut'.path = lastExport.path
    /\ backupOut'.password = lastExport.password

\* C18 as written: after a successful export-data with password p of a store
\* holding T, whatever is created and deleted in between, import-data of
\* that file with p succeeds and the store then holds exactly T.
C18_RoundTripAnySize ==
    [][ImportsLastExport =>
          (backupOut'.success /\ table' = lastExport.table)]_vars

\* C18 (amended): the same for an exported file that is not larger than the
\* 100 MB import-data accepts.
C18_RoundTripWithinLimit ==
    [][(ImportsLastExport /\ ~files[lastExport.path].data.large) =>
          (backupOut'.success /\ table' = lastExport.table)]_vars

\* An import brought back the exported transaction after the store had
\* been changed.
C18_Witness ==
    /\ backupOut.op = "import-data" /\ backupOut.success /\ backupOut.changed
    /\ lastExport.valid /\ table = lastExport.table /\ Len(table) = 1

----------------------------------------------------------------------------
(* initializeDatabase and load-data                                        *)

\* No getKey call of the run gives the key.
Unavailable(kr) == \A i \in DOMAIN kr : kr[i] # "key"

\* The first getKey call that gives the key.
FirstKey(kr) ==
    CHOOSE i \in DOMAIN kr : kr[i] = "key" /\ \A j \in 1..(i - 1) : kr[j] # "key"

\* After a run of initializeDatabase that may make `tries` getKey calls:
\* the database is open exactly when the run succeeded; when the key stays
\* unavailable the run makes all its calls and fails, and load-data answers
\* with the error of a database that is not initialized; when the key comes
\* within the calls and the database file opens, the run stops at that call
\* and succeeds.
InitializationWith(tries) ==
    initOut.keyResults # <<>> =>
        /\ dbHandle = IF initOut.ok THEN "open" ELSE initOut.before
        /\ Unavailable(initOut.keyResults) =>
            /\ ~initOut.ok
            /\ initOut.attempts = tries
            /\ initOut.op = "load-data" =>
                /\ ~initOut.success
                /\ initOut.error = NotInitialized
                /\ ~initOut.dataNull
        /\ (initOut.opens /\ \E i \in 1..tries : initOut.keyResults[i] = "key") =>
            /\ initOut.ok
            /\ initOut.attempts = FirstKey(initOut.keyResults)
            /\ dbHandle = "open"
            /\ initOut.op = "load-data" => initOut.success

\* C19 as written: initializeDatabase calls getKey 3 times when the key
\* stays unavailable, then fails, and load-data then answers success = false
\* with the "not initialized / complete onboarding" error, never success
\* with null data; when the key comes on a retry the database is opened and
\* the initialization succeeds.
C19_ThreeKeyRetrievals == InitializationWith(MaxRetries)

\* C19 amended: the same with 1 + 3 = 4 getKey calls, the first call and
\* three retries, and a database file that opens.
C19_FirstCallAndThreeRetries == InitializationWith(MaxRetries + 1)

C19_Witness ==
    /\ initOut.op = "load-data"
    /\ initOut.before = "none"
    /\ Unavailable(initOut.keyResults)
    /\ initOut.keyResults # <<>>
    /\ initOut.attempts = MaxRetries + 1
    /\ initOut.error = NotInitialized
    /\ dbHandle = "none"

----------------------------------------------------------------------------
(* storeKey                                                                *)

\* C20: storeKey writes to the keychain when keytar is loaded and
\* setPassword resolves, and answers success with storage "keychain";
\* otherwise (keytar missing or setPassword rejecting) it writes the
\* fallback file and answers success with storage "file"; only a failing
\* step of the file write gives success = false with that step's error;
\* storeKey never throws.
C20_StoreKeyFallsBack ==
    keyOut.op = "storeKey" =>
        LET inChain == keyOut.keytar /\ keyOut.setPassword = "resolves"
        IN /\ ~keyOut.threw
           /\ keyOut.success <=> (inChain \/ keyOut.fileStep = "")
           /\ inChain =>
                /\ keyOut.storage = "keychain"
                /\ keychain = keyOut.key
           /\ (~inChain /\ keyOut.fileStep = "") =>
                /\ keyOut.storage = "file"
                /\ keyFile = keyOut.key
           /\ ~keyOut.success =>
                /\ keyOut.error = keyOut.fileStep
                /\ keyOut.storage = ""
           /\ keyOut.success => keyOut.error = ""

C20_Witness ==
    /\ keyOut.op = "storeKey"
    /\ keyOut.keytar
    /\ keyOut.setPassword = "rejects"
    /\ keyOut.fileStep = ""
    /\ keyOut.success
    /\ keyOut.storage = "file"
    /\ keyFile = keyOut.key
    /\ keychain = NoKey

----------------------------------------------------------------------------
(* getKey                                                                  *)

\* A step of getKey.
IsGetKey == getOut'.n # getOut.n

\* getKey leaves the keychain and the fallback file as they are, and a call
\* that finds both as the call before found them, with the keychain
\* answering in the same way, returns what the call before returned.
GetKeyFrame ==
    IsGetKey =>
        /\ keychain' = keychain
        /\ keyFile' = keyFile
        /\ (/\ getOut.op = "getKey"
            /\ getOut.keychain = keychain
            /\ getOut.keyFile = keyFile
            /\ getOut.keytar = getOut'.keytar
            /\ getOut.getPassword = getOut'.getPassword) =>
                /\ getOut'.success = getOut.success
                /\ getOut'.key = getOut.key
                /\ getOut'.storage = getOut.storage
                /\ getOut'.error = getOut.error

\* The result of getKey: the key of the keychain when keytar gives one, else
\* the key of the fallback file; a missing, malformed or undecryptable file
\* gives success = false with a message, never an exception.
GetKeyResult ==
    getOut.op = "getKey" =>
        LET inChain == /\ getOut.keytar
                       /\ getOut.getPassword = "resolves"
                       /\ getOut.keychain # NoKey
        IN /\ ~getOut.threw
           /\ inChain =>
                /\ getOut.success
                /\ getOut.key = getOut.keychain
                /\ getOut.storage = "keychain"
           /\ (~inChain /\ getOut.keyFile \in KeyInputs) =>
                /\ getOut.success
                /\ getOut.key = getOut.keyFile
                /\ getOut.storage = "file"
           /\ (~inChain /\ getOut.keyFile \in DamagedFiles \cup {NoKey}) =>
                /\ ~getOut.success
                /\ getOut.error # ""

----------------------------------------------------------------------------
(* storeKey then getKey                                                    *)

\* C22: after storeKey(k) returned success, a getKey() that follows with no
\* deleteKey and no damage of the file in between returns success with
\* key = k, whatever the keychain does at either call and whatever key
\* either store held before.
C22_StoreThenGet ==
    [][(/\ IsGetKey
        /\ keyOut.op = "storeKey"
        /\ keyOut.success)
       => getOut'.success /\ getOut'.key = keyOut.key]_vars

----------------------------------------------------------------------------
(* detectColumns                                                           *)

\* The column kinds as the specification lists them, on the lower-case
\* header.
ListedKind(kind, header) ==
    LET h == TrimText(ToLowerCase(header))
    IN CASE kind = "date" -> IncludesWord(h, "date")
         [] kind = "description" ->
                \/ IncludesWord(h, "description") \/ IncludesWord(h, "payee")
                \/ IncludesWord(h, "memo")
         [] kind = "amount" ->
                \/ IsWords(h, <<"amount">>) \/ IncludesWord(h, "amt")
                \/ IsWords(h, <<"debit">>) \/ IsWords(h, <<"credit">>)
         [] kind = "category" -> IncludesWord(h, "category")
         [] kind = "checkNumber" -> IncludesWord(h, "check")

\* The columns of a header row that are of a kind, counted from 0.
ListedColumns(kind, headers) ==
    { i - 1 : i \in { k \in DOMAIN headers : ListedKind(kind, headers[k]) } }

\* C23: detectColumns maps, without regard to case, a header that equals or
\* contains "date" to date; one that equals or contains "description",
\* "payee" or "memo" to description; one that equals "amount", contains
\* "amt" or equals "debit" or "credit" to amount, the first such column
\* winning; one that equals or contains "category" to category; one that
\* contains "check" to checkNumber; a kind without such a column stays -1.
\* Date,Description,Amount gives (0, 1, 2); Trans Date,Memo,Debit,Credit
\* gives date 0, description 1, amount 2.
C23_ColumnsAsListed ==
    parseOut.op = "detectColumns" =>
        /\ \A kind \in {"date", "description", "amount", "category",
                        "checkNumber"} :
            LET cols == ListedColumns(kind, parseOut.headers)
            IN IF cols = {} THEN parseOut.map[kind] = 0 - 1
               ELSE IF kind = "amount"
                    THEN parseOut.map[kind] = FirstOf(cols)
                    ELSE parseOut.map[kind] \in cols
        /\ parseOut.headers \in ExampleHeaders =>
            /\ parseOut.map.date = 0
            /\ parseOut.map.description = 1
            /\ parseOut.map.amount = 2

----------------------------------------------------------------------------
(* parseAmount and determineTypeFromAmount                                 *)

\* C27: for every amount string of an emitted candidate the type is debit
\* exactly when parseAmount takes the string as negative (a leading minus
\* or enclosing parentheses after currency signs, separators, quotes and
\* white space are removed), and credit otherwise.
C27_TypeFollowsSign ==
    (parseOut.op = "parseAmount" /\ parseOut.emitted) =>
        (parseOut.type = "debit" <=> parseOut.parsedAmount.isNegative)

----------------------------------------------------------------------------
(* parseCSV                                                                *)

\* The lines of the last file that are not blank.
NonBlankLines == SelectSeq(parseOut.csvContent, LAMBDA line : ~IsBlankLine(line))

\* The lines among the first HeaderScanLines that have a field containing
\* "date", counted from 0.
HeaderCandidates ==
    { i - 1 : i \in { k \in 1..Min(HeaderScanLines, Len(NonBlankLines)) :
        \E f \in 1..Len(NonBlankLines[k]) :
            IncludesWord(TrimText(ToLowerCase(NonBlankLines[k][f])), "date") } }

\* The column order assumed for a file without header.
AssumedColumns ==
    [date |-> 0, description |-> 1, amount |-> 2, category |-> 0 - 1,
     checkNumber |-> 0 - 1]

\* The data rows as the specification has them: the lines after the header,
\* or every line from line 0 on when there is no header.
SpecifiedDataRows ==
    IF HeaderCandidates = {} THEN NonBlankLines
    ELSE SubSeq(NonBlankLines, FirstOf(HeaderCandidates) + 2,
                Len(NonBlankLines))

\* A data row with a parseable date, a parseable amount that is not zero and
\* a description without a summary phrase.
IsTransactionRow(fields) ==
    LET map == parseOut.columnMap
        dateStr == FieldOr(fields, map.date, 0)
        descriptionStr == FieldOr(fields, map.description, 1)
        amountStr == FieldOr(fields, map.amount, 2)
    IN /\ dateStr # <<>> /\ descriptionStr # <<>> /\ amountStr # <<>>
       /\ ParseDate(dateStr[1]) # ""
       /\ ~ParseAmount(amountStr[1].words).isNull
       /\ ParseAmount(amountStr[1].words).value # 0
       /\ \A p \in SummaryPhrases :
            ~IncludesWord(ToLowerCase(descriptionStr[1]), p)

\* What identifies the candidate of a row: date, description and amount.
RowKey(fields) ==
    LET map == parseOut.columnMap
    IN [date |-> ParseDate(FieldOr(fields, map.date, 0)[1]),
        description |-> TrimText(FieldOr(fields, map.description, 1)[1]),
        amount |-> ParseAmount(FieldOr(fields, map.amount, 2)[1].words).value]

CandidateKey(t) ==
    [date |-> t.date, description |-> t.description, amount |-> t.amount]

\* C24: every candidate of parseCSV has a date, an amount above zero,
\* isReconciled = false, selected = true and a description without
\* "beginning balance", "ending balance", "total credits" or "total debits"
\* in any case; and the candidates are, in input order, exactly one for
\* every data row with a parseable date, a parseable amount that is not zero
\* and a description without those phrases.
C24_CandidatesAreTheTransactionRows ==
    parseOut.op = "parseCSV" =>
        LET ts == parseOut.transactions
            rows == SelectSeq(SpecifiedDataRows, IsTransactionRow)
        IN /\ \A i \in 1..Len(ts) :
                /\ ts[i].date # ""
                /\ ts[i].amount > 0
                /\ ~ts[i].isReconciled
                /\ ts[i].selected
                /\ \A p \in SummaryPhrases :
                    ~IncludesWord(ToLowerCase(ts[i].description), p)
           /\ Len(ts) = Len(rows)
           /\ \A i \in 1..Len(rows) : CandidateKey(ts[i]) = RowKey(rows[i])

\* C26: the header is the first of the first 10 non-blank lines with a
\* field containing "date" and the lines after it are the data; without
\* such a line the columns are taken as (date, description, amount) and the
\* data rows start at line 0, the first line included.
C26_HeaderOrLineZero ==
    parseOut.op = "parseCSV" =>
        IF HeaderCandidates # {}
        THEN /\ parseOut.found = FirstOf(HeaderCandidates)
             /\ parseOut.transactions =
                    ParseDataLines(SpecifiedDataRows, parseOut.columnMap)
        ELSE /\ parseOut.columnMap = AssumedColumns
             /\ parseOut.transactions =
                    ParseDataLines(NonBlankLines, AssumedColumns)

----------------------------------------------------------------------------
(* The running balance                                                     *)

\* The sum of the signed amounts of the transactions of a list that satisfy
\* a condition on the date.
RECURSIVE SignedSumUpTo(_, _)
SignedSumUpTo(list, date) ==
    IF list = <<>> THEN 0
    ELSE SignedSumUpTo(Tail(list), date)
         + (IF Head(list).date <= date THEN SignedAmount(Head(list)) ELSE 0)

RECURSIVE TotalOf(_, _)
TotalOf(list, type) ==
    IF list = <<>> THEN 0
    ELSE TotalOf(Tail(list), type)
         + (IF Head(list).type = type THEN Head(list).amount ELSE 0)

\* C25: the balance on a row is the sum of the signed amounts (credit adds,
\* debit subtracts) of all transactions of the user dated on or before the
\* row; the rows are shown in descending date order; the overall balance is
\* the total of the credits minus the total of the debits.
C25_BalanceUpToRowDate ==
    parseOut.op = "renderUI" =>
        /\ \A i \in 1..Len(parseOut.rows) :
            /\ parseOut.rows[i].balance =
                   SignedSumUpTo(parseOut.transactions, parseOut.rows[i].date)
            /\ i > 1 => parseOut.rows[i - 1].date >= parseOut.rows[i].date
        /\ parseOut.balance = TotalOf(parseOut.transactions, "credit")
                              - TotalOf(parseOut.transactions, "debit")

----------------------------------------------------------------------------
(* import-data and the database handle                                     *)

\* C28: import-data answers success = true only when the database was
\* reopened and is usable; it never answers success while initializeDatabase
\* failed after the old handle was closed and the file overwritten, which
\* leaves db a closed handle that is not null.
C28_SuccessMeansReopened ==
    (backupOut.op = "import-data" /\ backupOut.success) =>
        /\ backupOut.reopened
        /\ dbHandle = "open"

----------------------------------------------------------------------------
(* export-data and the rate limiter                                        *)

\* A step of export-data.
IsExport == backupOut'.n # backupOut.n /\ backupOut'.op = "export-data"

RateLimited == "Too many export requests. Please wait and try again."

\* C30: export-data asks the rate limiter before it validates the path and
\* the password: a call on an initialized store that finds a free slot of
\* the window takes it, also when it is then rejected for its path or for a
\* password shorter than 8 characters; a call that finds every slot taken,
\* were it only by rejected calls, is refused as rate-limited even with a
\* valid path and password; no rejected call writes an export file.
C30_RateLimitBeforeValidation ==
    [][(IsExport /\ dbHandle # "none") =>
        LET recent == RecentAttempts(attempts["export"], clock)
        IN /\ IF Len(recent) >= RateMax
              THEN /\ ~backupOut'.success
                   /\ backupOut'.error = RateLimited
                   /\ attempts' = attempts
              ELSE /\ attempts'["export"] = Append(recent, clock)
                   /\ backupOut'.error # RateLimited
                   /\ ~backupOut'.valid => ~backupOut'.success
           /\ ~backupOut'.success => files' = files]_vars

C30_Witness ==
    /\ backupOut.op = "export-data"
    /\ backupOut.valid
    /\ ~backupOut.success
    /\ backupOut.error = RateLimited
    /\ dbHandle = "open"
    /\ Len(attempts["export"]) = RateMax
    /\ \A p \in BackupPaths : files[p] = NoFile

----------------------------------------------------------------------------
(* Handlers and the database handle                                        *)

\* C29: a handler that runs and finds db not null finds an open database,
\* also when it runs while import-data or db:change-path, having closed the
\* handle, awaits initializeDatabase before a new handle is assigned.
C29_NonNullHandleIsOpen ==
    handlerOut.handler # "" => handlerOut.handle = "open"

====
